---- MODULE Spec2Model ----
(***************************************************************************)
(* Performance analytics engine of mystoreofvalue.com: window generation,  *)
(* window validation, DCA purchase schedules and the buy-and-hold risk     *)
(* metrics, modelled from calculate_performance.py,                        *)
(* calculate_dca_performance.py and update_performance_monthly.py.         *)
(*                                                                         *)
(* Dates are records [year, month, day]; datetimes carry a time of day     *)
(* `tod` as well (0 = midnight).  A '%Y-%m-%d' string is the tuple         *)
(* <<year, month, day>>.  Day arithmetic goes through the proleptic        *)
(* Gregorian ordinal exactly as Python's datetime does.                    *)
(***************************************************************************)
EXTENDS Integers, Sequences, FiniteSets, TLC

VARIABLES
    \* ---- window generation (process_asset / main loops)
    mode,           \* "bh": process_asset loop, "dca": main task loop, "off"
    START_DATE,     \* the configured epoch, a '%Y-%m-%d' string
    today,          \* datetime.now()
    hp_i,           \* position of the `for holding_years` loop
    fq_i,           \* position of the `for frequency` loop (dca)
    current_start,  \* loop variable of the `while True` loop
    all_tasks,      \* windows generated so far, in order
    gen_pc,         \* "for" | "while" | "done" | "off"
    \* ---- window validation (calculate_performance_metrics / calculate_dca_performance)
    price_table,    \* the asset's rows with a USD price: runs [lo, hi] of date ordinals
    v_task,         \* the call's (start_date, end_date, holding_years)
    bh_out,         \* outcome of calculate_performance.calculate_performance_metrics
    dca_out,        \* outcome of calculate_dca_performance's validation
    mo_out,         \* outcome of update_performance_monthly.calculate_performance_metrics
    \* ---- get_dca_purchase_dates
    pd_args,        \* (start_date, end_date, frequency)
    current,        \* the loop variable
    purchase_dates, \* the list being built
    pd_pc,          \* "call" | "daily" | "seek" | "weekly" | "monthly" | "done" | "off"
    \* ---- the metric calculators
    m_call,         \* the function called: "max_drawdown" | "full" | "monthly" | "off"
    prices,         \* the price series
    m_dates,        \* the dates of the samples
    m_years,        \* holding_years
    m_out,          \* what the call returned (with the locals max_dd_idx and
                    \* downside_dev); NoResult before it returns
    m_pc,           \* "call" | "done" | "off"
    \* ---- the DCA simulation (calculate_dca_performance after validation, main's collection)
    d_schedule,     \* the purchase dates get_dca_purchase_dates returned
    d_out,          \* what calculate_dca_performance returned: None or the record
    results_batch,  \* main's results_batch
    d_pc,           \* "call" | "returned" | "done" | "off"
    \* ---- a run of an orchestrator (main of the two full-run scripts)
    r_mode,         \* "bh": calculate_performance, "dca": calculate_dca_performance, "off"
    r_today,        \* datetime.now() of the run
    r_tasks,        \* the calls of the run in order: bh, per asset the windows of
                    \* process_asset's loops; dca, main's all_tasks
    store,          \* the price tables: symbol -> runs [lo, hi, price]
    fail_on,        \* the (symbol, window) pairs whose series fetch raises
    db_faults,      \* how many more batch inserts the database will refuse
    r_run,          \* how many times the script has been started
    r_pc,           \* "loop" | "summary" | "off"
    r_asset_i,      \* bh: the asset being processed; dca: the task being collected
    r_win_i,        \* bh: position in the asset's windows
    results,        \* bh: process_asset's results list
    sink,           \* the rows of the performance table
    sink_first,     \* the rows as they were at the summary of the first run
    evaluated,      \* the (symbol, window) pairs whose evaluation returned
    completed,      \* main's completed counter
    \* ---- the task grid of a script (get_all_assets_with_data and main's task loops)
    g_script,       \* "bh" | "dca": the full runs, "bh_monthly" | "dca_monthly", "off"
    g_today,        \* datetime.now()
    g_tables,       \* price table -> the symbols with 1000 rows or more since START_DATE
    g_assets,       \* what get_all_assets_with_data returned
    g_start_dates,  \* the monthly scripts' start_dates
    g_tasks,        \* the units of work of the run, in order of submission
    g_pc,           \* "assets" | "start_dates" | "tasks" | "done" | "off"
    \* ---- the records a script holds for one asset between two inserts
    b_script,       \* "bh": process_asset's results, "dca": main's results_batch, "off"
    b_today,        \* datetime.now()
    b_listed,       \* the first date the asset has rows for
    b_hp_i,         \* position of the loop over HOLDING_PERIODS
    b_fq_i,         \* position of the loop over DCA_FREQUENCIES (dca)
    b_start,        \* current_start
    b_len,          \* len(results) / len(results_batch)
    b_pc,           \* "loop" | "flush" | "done" | "off"
    \* ---- the worker pool of a run (ThreadPoolExecutor, as_completed)
    p_workers,      \* MAX_WORKERS
    p_running,      \* the units a worker is busy with
    p_finished      \* the units whose future is done and not yet taken by main

genVars == <<mode, START_DATE, today, hp_i, fq_i, current_start, all_tasks, gen_pc>>

valVars == <<price_table, v_task, bh_out, dca_out, mo_out>>

pdVars == <<pd_args, current, purchase_dates, pd_pc>>

metVars == <<m_call, prices, m_dates, m_years, m_out, m_pc>>

dcaVars == <<d_schedule, d_out, results_batch, d_pc>>

runVars == <<r_mode, r_today, r_tasks, store, fail_on, db_faults, r_run, r_pc, r_asset_i, r_win_i,
             results, sink, sink_first, evaluated, completed>>

gridVars == <<g_script, g_today, g_tables, g_assets, g_start_dates, g_tasks, g_pc>>

bufVars == <<b_script, b_today, b_listed, b_hp_i, b_fq_i, b_start, b_len, b_pc>>

poolVars == <<p_workers, p_running, p_finished>>

orchVars == <<gridVars, bufVars, poolVars>>

vars == <<genVars, valVars, pdVars, metVars, dcaVars, runVars, orchVars>>

(***************************************************************************)
(* Calendar: Python datetime's proleptic Gregorian arithmetic.             *)
(***************************************************************************)
IsLeap(y) == (y % 4 = 0) /\ ((y % 100 # 0) \/ (y % 400 = 0))

DaysBeforeYear(y) ==
    LET p == y - 1 IN p * 365 + (p \div 4) - (p \div 100) + (p \div 400)

DAYS_IN_MONTH == <<31, 28, 31, 30, 31, 30, 31, 31, 30, 31, 30, 31>>

DAYS_BEFORE_MONTH == <<0, 31, 59, 90, 120, 151, 181, 212, 243, 273, 304, 334>>

DaysInMonth(y, m) == IF m = 2 /\ IsLeap(y) THEN 29 ELSE DAYS_IN_MONTH[m]

DaysBeforeMonth(y, m) ==
    DAYS_BEFORE_MONTH[m] + (IF m > 2 /\ IsLeap(y) THEN 1 ELSE 0)

\* date.toordinal(): 0001-01-01 is day 1
ToOrdinal(d) == DaysBeforeYear(d.year) + DaysBeforeMonth(d.year, d.month) + d.day

\* date.fromordinal(n), by the 400/100/4/1-year cycle decomposition
FromOrdinal(n) ==
    LET n0   == n - 1
        n400 == n0 \div 146097
        r400 == n0 % 146097
        n100 == r400 \div 36524
        r100 == r400 % 36524
        n4   == r100 \div 1461
        r4   == r100 % 1461
        n1   == r4 \div 365
        r1   == r4 % 365
        y    == n400 * 400 + 1 + n100 * 100 + n4 * 4 + n1
    IN  IF n1 = 4 \/ n100 = 4
        THEN [year |-> y - 1, month |-> 12, day |-> 31]
        ELSE LET leap == (n1 = 3) /\ ((n4 # 24) \/ (n100 = 3))
                 bump(m) == IF m > 2 /\ leap THEN 1 ELSE 0
                 m0   == (r1 + 50) \div 32
                 pre0 == DAYS_BEFORE_MONTH[m0] + bump(m0)
                 m    == IF pre0 > r1 THEN m0 - 1 ELSE m0
                 pre  == IF pre0 > r1
                         THEN pre0 - (DAYS_IN_MONTH[m] + (IF m = 2 /\ leap THEN 1 ELSE 0))
                         ELSE pre0
             IN  [year |-> y, month |-> m, day |-> r1 - pre + 1]

\* date + timedelta(days=k)
AddDays(d, k) == FromOrdinal(ToOrdinal(d) + k)

\* (a - b).days
DaysBetween(a, b) == ToOrdinal(a) - ToOrdinal(b)

\* mutant: weekday numbering with Sunday as 0
WeekdaySundayZero(d) == ToOrdinal(d) % 7

\* date.weekday(): Monday is 0
Weekday(d) == (ToOrdinal(d) + 6) % 7

\* datetime(y, m, d): midnight
Datetime(y, m, d) == [year |-> y, month |-> m, day |-> d, tod |-> 0]

\* datetime.date()
DateOf(dt) == [year |-> dt.year, month |-> dt.month, day |-> dt.day]

\* datetime a > datetime b
DtGreater(a, b) ==
    \/ ToOrdinal(DateOf(a)) > ToOrdinal(DateOf(b))
    \/ ToOrdinal(DateOf(a)) = ToOrdinal(DateOf(b)) /\ a.tod > b.tod

DtLessEq(a, b) == ~DtGreater(a, b)

\* dt.strftime('%Y-%m-%d')
Strftime(dt) == <<dt.year, dt.month, dt.day>>

\* datetime.strptime(s, '%Y-%m-%d')
Strptime(s) == Datetime(s[1], s[2], s[3])

(***************************************************************************)
(* Configuration.                                                          *)
(***************************************************************************)
HOLDING_PERIODS == <<3, 4, 5, 6, 7, 8, 9, 10>>

DCA_FREQUENCIES == <<"daily", "weekly", "monthly">>

\* the epoch as shipped
START_DATE_DEFAULT == <<2010, 1, 1>>

(***************************************************************************)
(* Window generation.                                                      *)
(***************************************************************************)
\* end_date = datetime(current_start.year + holding_years, current_start.month, 1)
EndDateFor(cs, holding_years) == Datetime(cs.year + holding_years, cs.month, 1)

\* mutant: December rolls to January of the same year
NextMonthSameYear(cs) ==
    IF cs.month = 12
    THEN Datetime(cs.year, 1, 1)
    ELSE Datetime(cs.year, cs.month + 1, 1)

\* "Move to first day of next month"
NextMonthFirst(cs) ==
    IF cs.month = 12
    THEN Datetime(cs.year + 1, 1, 1)
    ELSE Datetime(cs.year, cs.month + 1, 1)

\* mutant: the epoch's day of month is kept
FirstStartKeepsDay(start) == Datetime(start.year, start.month, start.day)

\* current_start = datetime(start.year, start.month, 1)
FirstStart(start) == Datetime(start.year, start.month, 1)

\* the frequencies a loop nest runs through: process_asset has no frequency loop
Frequencies == IF mode = "dca" THEN DCA_FREQUENCIES ELSE <<"none">>

\* for holding_years in HOLDING_PERIODS: (for frequency in DCA_FREQUENCIES:)
\*     current_start = datetime(start.year, start.month, 1)
GenFor ==
    /\ gen_pc = "for"
    /\ hp_i <= Len(HOLDING_PERIODS)
    /\ current_start' = FirstStart(Strptime(START_DATE))
    /\ gen_pc' = "while"
    /\ UNCHANGED <<orchVars, runVars, mode, START_DATE, today, hp_i, fq_i, all_tasks, valVars, pdVars, metVars, dcaVars>>

\* the loops are exhausted
GenDone ==
    /\ gen_pc = "for"
    /\ hp_i > Len(HOLDING_PERIODS)
    /\ gen_pc' = "done"
    /\ UNCHANGED <<orchVars, runVars, mode, START_DATE, today, hp_i, fq_i, current_start, all_tasks, valVars, pdVars, metVars, dcaVars>>

\* if end_date > today: break
GenBreak ==
    /\ gen_pc = "while"
    /\ DtGreater(EndDateFor(current_start, HOLDING_PERIODS[hp_i]), today)
    /\ IF fq_i < Len(Frequencies)
       THEN fq_i' = fq_i + 1 /\ hp_i' = hp_i
       ELSE fq_i' = 1 /\ hp_i' = hp_i + 1
    /\ gen_pc' = "for"
    /\ UNCHANGED <<orchVars, runVars, mode, START_DATE, today, current_start, all_tasks, valVars, pdVars, metVars, dcaVars>>

\* one pass of the while loop: the window is evaluated (bh) or appended (dca),
\* then current_start moves to the first day of the next month
GenAppend ==
    /\ gen_pc = "while"
    /\ LET end_date == EndDateFor(current_start, HOLDING_PERIODS[hp_i])
       IN  /\ ~DtGreater(end_date, today)
           /\ all_tasks' = Append(all_tasks,
                  [start_date    |-> Strftime(current_start),
                   end_date      |-> Strftime(end_date),
                   holding_years |-> HOLDING_PERIODS[hp_i],
                   frequency     |-> Frequencies[fq_i]])
    /\ current_start' = NextMonthFirst(current_start)
    /\ UNCHANGED <<orchVars, runVars, mode, START_DATE, today, hp_i, fq_i, gen_pc, valVars, pdVars, metVars, dcaVars>>

(***************************************************************************)
(* int(expected_days * 0.7) in IEEE-754 binary64.  The literal 0.7 is the  *)
(* double 6305039478318694 / 2^53; the product is rounded to 53            *)
(* significant bits (ties to even) and int() truncates.  The 53-bit        *)
(* mantissa is held in base-2^15 limbs, least significant first.           *)
(***************************************************************************)
RECURSIVE Pow2(_)
Pow2(k) == IF k = 0 THEN 1 ELSE 2 * Pow2(k - 1)

RECURSIVE BitLen(_)
BitLen(x) == IF x = 0 THEN 0 ELSE 1 + BitLen(x \div 2)

\* the mantissa of the double 0.7
MANTISSA_07 == <<26214, 19660, 6553, 179>>

\* n * mantissa, exact, as five limbs
MulMantissa(n) ==
    LET t0 == n * MANTISSA_07[1]
        t1 == n * MANTISSA_07[2] + (t0 \div 32768)
        t2 == n * MANTISSA_07[3] + (t1 \div 32768)
        t3 == n * MANTISSA_07[4] + (t2 \div 32768)
    IN  <<t0 % 32768, t1 % 32768, t2 % 32768, t3 % 32768, t3 \div 32768>>

\* the exact product rounded to 53 significant bits, ties to even
RoundToDouble(P) ==
    LET top  == IF P[5] # 0 THEN 5 ELSE 4
        bits == 15 * (top - 1) + BitLen(P[top])
        k    == bits - 53
        low  == P[1] % Pow2(k)
        half == Pow2(k) \div 2
        lsb  == (P[1] \div Pow2(k)) % 2
        c    == IF k = 0 THEN 0
                ELSE IF low > half \/ (low = half /\ lsb = 1) THEN 1 ELSE 0
        u1   == P[1] - low + c * Pow2(k)
        u2   == P[2] + (u1 \div 32768)
        u3   == P[3] + (u2 \div 32768)
        u4   == P[4] + (u3 \div 32768)
        u5   == P[5] + (u4 \div 32768)
    IN  <<u1 % 32768, u2 % 32768, u3 % 32768, u4 % 32768, u5>>

\* int(n * 0.7) for an int n >= 0
IntTimes07(n) ==
    IF n = 0 THEN 0
    ELSE LET V == RoundToDouble(MulMantissa(n))
         IN  (V[4] \div 256) + V[5] * 128

(***************************************************************************)
(* Window validation.  A fetched series is a sequence of gap-free runs     *)
(* [lo, hi] of date ordinals in increasing order: the validator reads only *)
(* the number of rows and the first and the last date.                     *)
(***************************************************************************)
Max(a, b) == IF a >= b THEN a ELSE b

Min(a, b) == IF a <= b THEN a ELSE b

\* SELECT date, price_usd ... WHERE date >= start AND date <= end ORDER BY date ASC
GetPriceData(table, start_date, end_date) ==
    LET s == ToOrdinal(DateOf(Strptime(start_date)))
        e == ToOrdinal(DateOf(Strptime(end_date)))
        clipped == [i \in 1 .. Len(table) |->
                       [table[i] EXCEPT !.lo = Max(@, s), !.hi = Min(@, e)]]
    IN  SelectSeq(clipped, LAMBDA r : r.lo <= r.hi)

RECURSIVE RowCount(_)
\* len(price_data)
RowCount(rows) ==
    IF rows = <<>> THEN 0
    ELSE (rows[1].hi - rows[1].lo + 1) + RowCount(Tail(rows))

\* dates[0]
FirstDate(rows) == FromOrdinal(rows[1].lo)

\* dates[-1]
LastDate(rows) == FromOrdinal(rows[Len(rows)].hi)

\* mutant: the exact start date check is missing
ValidateNoStartCheck(price_data, start_date, end_date, holding_years) ==
    LET expected_days     == holding_years * 365
        min_required_days == IntTimes07(expected_days)
    IN  IF RowCount(price_data) < min_required_days THEN "reject_count"
        ELSE IF price_data = <<>> THEN "IndexError"
        ELSE IF LastDate(price_data) # DateOf(Strptime(end_date)) THEN "reject_end"
        ELSE IF DaysBetween(LastDate(price_data), FirstDate(price_data)) < expected_days - 10
             THEN "reject_span"
        ELSE "accept"

\* mutant: the span tolerance is compared with <=
ValidateSpanOffByOne(price_data, start_date, end_date, holding_years) ==
    LET expected_days     == holding_years * 365
        min_required_days == IntTimes07(expected_days)
    IN  IF RowCount(price_data) < min_required_days THEN "reject_count"
        ELSE IF price_data = <<>> THEN "IndexError"
        ELSE IF FirstDate(price_data) # DateOf(Strptime(start_date)) THEN "reject_start"
        ELSE IF LastDate(price_data) # DateOf(Strptime(end_date)) THEN "reject_end"
        ELSE IF DaysBetween(LastDate(price_data), FirstDate(price_data)) <= expected_days - 10
             THEN "reject_span"
        ELSE "accept"

\* calculate_performance.calculate_performance_metrics, up to its last `return None`
ValidateBH(price_data, start_date, end_date, holding_years) ==
    LET expected_days     == holding_years * 365
        min_required_days == IntTimes07(expected_days)
    IN  IF RowCount(price_data) < min_required_days THEN "reject_count"
        ELSE IF price_data = <<>> THEN "IndexError"
        ELSE LET first_date == FirstDate(price_data)
                 start_dt   == DateOf(Strptime(start_date))
             IN  IF first_date # start_dt THEN "reject_start"
                 ELSE LET last_date == LastDate(price_data)
                          end_dt    == DateOf(Strptime(end_date))
                      IN  IF last_date # end_dt THEN "reject_end"
                          ELSE LET actual_days == DaysBetween(last_date, first_date)
                               IN  IF actual_days < expected_days - 10
                                   THEN "reject_span"
                                   ELSE "accept"

\* calculate_dca_performance, up to the span check
ValidateDCA(price_data, start_date, end_date, holding_years) ==
    LET expected_days     == holding_years * 365
        min_required_days == IntTimes07(expected_days)
    IN  IF RowCount(price_data) < min_required_days THEN "reject_count"
        ELSE IF price_data = <<>> THEN "IndexError"
        ELSE LET first_date == FirstDate(price_data)
                 last_date  == LastDate(price_data)
                 start_dt   == DateOf(Strptime(start_date))
                 end_dt     == DateOf(Strptime(end_date))
             IN  IF first_date # start_dt THEN "reject_start"
                 ELSE IF last_date # end_dt THEN "reject_end"
                 ELSE IF DaysBetween(last_date, first_date) < expected_days - 10
                      THEN "reject_span"
                 ELSE "accept"

\* update_performance_monthly.calculate_performance_metrics, up to the span check
ValidateMonthly(price_data, start_date, end_date, holding_years) ==
    LET expected_days     == holding_years * 365
        min_required_days == IntTimes07(expected_days)
    IN  IF RowCount(price_data) < min_required_days THEN "reject_count"
        ELSE IF price_data = <<>> THEN "IndexError"
        ELSE LET first_date == FirstDate(price_data)
                 start_dt   == DateOf(Strptime(start_date))
             IN  IF first_date # start_dt THEN "reject_start"
                 ELSE LET last_date == LastDate(price_data)
                          end_dt    == DateOf(Strptime(end_date))
                      IN  IF last_date # end_dt THEN "reject_end"
                          ELSE IF DaysBetween(last_date, first_date) < expected_days - 10
                               THEN "reject_span"
                               ELSE "accept"

CalcBuyAndHold ==
    /\ bh_out = "pending"
    /\ bh_out' = ValidateBH(GetPriceData(price_table, v_task.start_date, v_task.end_date),
                            v_task.start_date, v_task.end_date, v_task.holding_years)
    /\ UNCHANGED <<orchVars, runVars, genVars, pdVars, metVars, dcaVars, price_table, v_task, dca_out, mo_out>>

CalcDCA ==
    /\ dca_out = "pending"
    /\ dca_out' = ValidateDCA(GetPriceData(price_table, v_task.start_date, v_task.end_date),
                              v_task.start_date, v_task.end_date, v_task.holding_years)
    /\ UNCHANGED <<orchVars, runVars, genVars, pdVars, metVars, dcaVars, price_table, v_task, bh_out, mo_out>>

CalcMonthly ==
    /\ mo_out = "pending"
    /\ mo_out' = ValidateMonthly(GetPriceData(price_table, v_task.start_date, v_task.end_date),
                                 v_task.start_date, v_task.end_date, v_task.holding_years)
    /\ UNCHANGED <<orchVars, runVars, genVars, pdVars, metVars, dcaVars, price_table, v_task, bh_out, dca_out>>

(***************************************************************************)
(* get_dca_purchase_dates, one action per branch and loop pass.            *)
(***************************************************************************)
\* current.weekday() != 0
NotMonday(cur) == Weekday(DateOf(cur)) # 0

\* current + timedelta(days=k), the time of day kept
DtAddDays(cur, k) ==
    LET d == AddDays(DateOf(cur), k)
    IN  [year |-> d.year, month |-> d.month, day |-> d.day, tod |-> cur.tod]

\* mutant: every first of month from the start month on is taken
MonthlyTakesAll(cur, start_dt) == TRUE

\* if current >= start_dt
MonthlyTakes(cur, start_dt) == ~DtGreater(start_dt, cur)

\* start_dt, end_dt, current = start_dt, and the branch on frequency
PdCall ==
    /\ pd_pc = "call"
    /\ LET start_dt == Strptime(pd_args.start_date)
       IN  \/ /\ pd_args.frequency = "daily"
              /\ current' = start_dt
              /\ pd_pc' = "daily"
           \/ /\ pd_args.frequency = "weekly"
              /\ current' = start_dt
              /\ pd_pc' = "seek"
           \/ /\ pd_args.frequency = "monthly"
              /\ current' = Datetime(start_dt.year, start_dt.month, 1)
              /\ pd_pc' = "monthly"
           \/ /\ pd_args.frequency \notin {"daily", "weekly", "monthly"}
              /\ current' = start_dt
              /\ pd_pc' = "done"
    /\ UNCHANGED <<orchVars, runVars, genVars, valVars, metVars, dcaVars, pd_args, purchase_dates>>

\* while current <= end_dt: append; current += timedelta(days=1)
PdDaily ==
    /\ pd_pc = "daily"
    /\ DtLessEq(current, Strptime(pd_args.end_date))
    /\ purchase_dates' = Append(purchase_dates, DateOf(current))
    /\ current' = DtAddDays(current, 1)
    /\ UNCHANGED <<orchVars, runVars, genVars, valVars, metVars, dcaVars, pd_args, pd_pc>>

\* while current.weekday() != 0: current += timedelta(days=1)
PdSeekMonday ==
    /\ pd_pc = "seek"
    /\ IF NotMonday(current)
       THEN current' = DtAddDays(current, 1) /\ pd_pc' = "seek"
       ELSE current' = current /\ pd_pc' = "weekly"
    /\ UNCHANGED <<orchVars, runVars, genVars, valVars, metVars, dcaVars, pd_args, purchase_dates>>

\* while current <= end_dt: append; current += timedelta(days=7)
PdWeekly ==
    /\ pd_pc = "weekly"
    /\ DtLessEq(current, Strptime(pd_args.end_date))
    /\ purchase_dates' = Append(purchase_dates, DateOf(current))
    /\ current' = DtAddDays(current, 7)
    /\ UNCHANGED <<orchVars, runVars, genVars, valVars, metVars, dcaVars, pd_args, pd_pc>>

\* while current <= end_dt: if current >= start_dt: append; move to next month
PdMonthly ==
    /\ pd_pc = "monthly"
    /\ DtLessEq(current, Strptime(pd_args.end_date))
    /\ purchase_dates' = IF MonthlyTakes(current, Strptime(pd_args.start_date))
                         THEN Append(purchase_dates, DateOf(current))
                         ELSE purchase_dates
    /\ current' = NextMonthFirst(current)
    /\ UNCHANGED <<orchVars, runVars, genVars, valVars, metVars, dcaVars, pd_args, pd_pc>>

\* the loop condition fails: return purchase_dates
PdReturn ==
    /\ pd_pc \in {"daily", "weekly", "monthly"}
    /\ DtGreater(current, Strptime(pd_args.end_date))
    /\ pd_pc' = "done"
    /\ UNCHANGED <<orchVars, runVars, genVars, valVars, metVars, dcaVars, pd_args, current, purchase_dates>>

(***************************************************************************)
(* The metric calculators.  A float is the exact rational <<n, d>>, d > 0: *)
(* on the integral prices of the model every comparison the code makes     *)
(* between two quotients has the result the binary64 computation has.      *)
(* Indices are 0-based as in the source.                                   *)
(***************************************************************************)
RZero == <<0, 1>>

RLess(a, b) == a[1] * b[2] < b[1] * a[2]

REq(a, b) == a[1] * b[2] = b[1] * a[2]

RLeq(a, b) == a[1] * b[2] <= b[1] * a[2]

\* x * 100
RTimes100(a) == <<a[1] * 100, a[2]>>

\* abs(x * 100)
RAbsTimes100(a) == <<(IF a[1] < 0 THEN 0 - a[1] ELSE a[1]) * 100, a[2]>>

\* mutant: the decline is divided by the price instead of the peak
DrawdownOverPrice(price, peak) == <<price - peak, price>>

\* drawdown = (price - peak) / peak
DrawdownOf(price, peak) == <<price - peak, peak>>

\* mutant: a later, equally deep drawdown replaces the recorded one
DeeperOrEqual(drawdown, max_dd) == RLeq(drawdown, max_dd)

\* if drawdown < max_dd
Deeper(drawdown, max_dd) == RLess(drawdown, max_dd)

RECURSIVE DrawdownLoop(_, _, _, _, _)
\* for i, price in enumerate(prices): peak is raised first, then compared
DrawdownLoop(ps, i, peak, max_dd, max_dd_idx) ==
    IF i > Len(ps)
    THEN [pct |-> RAbsTimes100(max_dd), idx |-> max_dd_idx]
    ELSE LET price    == ps[i]
             peak2    == IF price > peak THEN price ELSE peak
             drawdown == DrawdownOf(price, peak2)
         IN  IF Deeper(drawdown, max_dd)
             THEN DrawdownLoop(ps, i + 1, peak2, drawdown, i - 1)
             ELSE DrawdownLoop(ps, i + 1, peak2, max_dd, max_dd_idx)

\* calculate_performance.calculate_max_drawdown
calculate_max_drawdown(ps) ==
    IF Len(ps) < 2
    THEN [pct |-> RZero, idx |-> 0]
    ELSE DrawdownLoop(ps, 1, ps[1], RZero, 0)

\* update_performance_monthly.calculate_max_drawdown: no length guard, prices[0]
\* is read at once (the series is not empty where it is called)
calculate_max_drawdown_monthly(ps) == DrawdownLoop(ps, 1, ps[1], RZero, 0)

\* mutant: a later sample at the same minimum replaces the recorded one
LowerOrEqual(price, min_price) == price <= min_price

\* if price < min_price
Lower(price, min_price) == price < min_price

RECURSIVE MinPriceLoop(_, _, _, _)
MinPriceLoop(ps, i, min_price, min_price_idx) ==
    IF i > Len(ps)
    THEN [min_price |-> min_price, idx |-> min_price_idx]
    ELSE IF Lower(ps[i], min_price)
         THEN MinPriceLoop(ps, i + 1, ps[i], i - 1)
         ELSE MinPriceLoop(ps, i + 1, min_price, min_price_idx)

\* calculate_performance.calculate_max_loss_from_entry
calculate_max_loss_from_entry(ps, entry_price) ==
    IF Len(ps) < 1
    THEN [pct |-> RZero, idx |-> 0]
    ELSE LET m == MinPriceLoop(ps, 1, ps[1], 0)
         IN  [pct |-> RTimes100(<<m.min_price - entry_price, entry_price>>), idx |-> m.idx]

\* update_performance_monthly: np.min and np.argmin of (prices - start_price) / start_price
MaxLossMonthly(ps, start_price) ==
    LET ratio == [i \in 1 .. Len(ps) |-> <<ps[i] - start_price, start_price>>]
        lo    == CHOOSE i \in 1 .. Len(ps) : \A j \in 1 .. Len(ps) : RLeq(ratio[i], ratio[j])
        first == CHOOSE i \in 1 .. Len(ps) :
                    /\ REq(ratio[i], ratio[lo])
                    /\ \A j \in 1 .. i - 1 : ~REq(ratio[j], ratio[lo])
    IN  [pct |-> RTimes100(ratio[lo]), idx |-> first - 1]

\* mutant: the root is taken of the gain instead of the growth factor
AnnualizedReturnOfGain(start_price, end_price, years) ==
    [base |-> <<end_price - start_price, start_price>>, root |-> years]

\* annualized_return_pct = (((end_price / start_price) ** (1 / years)) - 1) * 100,
\* kept as the root it is of
AnnualizedReturn(start_price, end_price, years) ==
    [base |-> <<end_price, start_price>>, root |-> years]

NoAnnualizedReturn == [base |-> RZero, root |-> 0]

\* the float 0.0 as a Calmar ratio
CalmarZero == [zero |-> TRUE, num |-> NoAnnualizedReturn, den |-> RZero]

\* mutant: the quotient is formed whatever the drawdown
CalmarNoZeroGuard(annualized_return, max_drawdown) ==
    [zero |-> FALSE, num |-> annualized_return, den |-> max_drawdown]

\* calculate_calmar_ratio: 0.0 when max_drawdown == 0, else the quotient
\* (annualized_return / 100) / (max_drawdown / 100), kept as its operands
calculate_calmar_ratio(annualized_return, max_drawdown) ==
    IF REq(max_drawdown, RZero)
    THEN CalmarZero
    ELSE [zero |-> FALSE, num |-> annualized_return, den |-> max_drawdown]

RECURSIVE SeqMin(_)
SeqMin(ps) == IF Len(ps) = 1 THEN ps[1] ELSE Min(ps[1], SeqMin(Tail(ps)))

RECURSIVE SeqMax(_)
SeqMax(ps) == IF Len(ps) = 1 THEN ps[1] ELSE Max(ps[1], SeqMax(Tail(ps)))

\* calculate_returns: (prices[i] - prices[i-1]) / prices[i-1], [] below two prices
calculate_returns(ps) ==
    IF Len(ps) < 2 THEN <<>>
    ELSE [i \in 1 .. Len(ps) - 1 |-> <<ps[i + 1] - ps[i], ps[i]>>]

(***************************************************************************)
(* A standard deviation is kept as what it is taken of, with the kind of   *)
(* float it is: "zero" (0.0), "pos" (a positive number) or "nan"           *)
(* (not-a-number).  `times` is the factor it was scaled by besides         *)
(* sqrt(365).                                                              *)
(***************************************************************************)
FZero == [kind |-> "zero", sample |-> <<>>, times |-> 0]

\* np.std(xs, ddof=1): the sum of squared deviations over len(xs) - 1, which
\* for a single element is 0/0 = nan; 0.0 when all elements are equal
SampleStd(xs) ==
    [kind   |-> IF Len(xs) <= 1 THEN "nan"
                ELSE IF \A i \in 1 .. Len(xs) : REq(xs[i], xs[1]) THEN "zero"
                ELSE "pos",
     sample |-> xs,
     times  |-> 1]

\* calculate_volatility (the same function in update_performance_monthly)
calculate_volatility(returns) ==
    IF Len(returns) < 2 THEN FZero
    ELSE [SampleStd(returns) EXCEPT !.times = 100]

\* returns[returns < 0]
NegativeReturns(returns) == SelectSeq(returns, LAMBDA r : RLess(r, RZero))

\* calculate_downside_deviation (the same function in update_performance_monthly)
calculate_downside_deviation(returns) ==
    IF Len(returns) < 2 THEN FZero
    ELSE LET negative_returns == NegativeReturns(returns)
         IN  IF Len(negative_returns) = 0 THEN FZero
             ELSE SampleStd(negative_returns)

\* the float 0.0 as a Sharpe or Sortino ratio
RatioZero == [zero |-> TRUE, num |-> NoAnnualizedReturn, den |-> FZero]

\* mutant: the quotient is formed whatever the volatility
SharpeNoZeroGuard(annualized_return, volatility) ==
    [zero |-> FALSE, num |-> annualized_return, den |-> volatility]

\* calculate_sharpe_ratio: 0.0 when volatility == 0, else the quotient
\* (annualized_return / 100 - risk_free_rate) / (volatility / 100), kept as its operands
calculate_sharpe_ratio(annualized_return, volatility) ==
    IF volatility.kind = "zero"
    THEN RatioZero
    ELSE [zero |-> FALSE, num |-> annualized_return, den |-> volatility]

\* calculate_sortino_ratio: 0.0 when downside_deviation == 0, else the quotient
\* (annualized_return / 100 - risk_free_rate) / downside_deviation
calculate_sortino_ratio(annualized_return, downside_deviation) ==
    IF downside_deviation.kind = "zero"
    THEN RatioZero
    ELSE [zero |-> FALSE, num |-> annualized_return, den |-> downside_deviation]

\* int(np.sum(returns > 0))
PositiveDays(returns) == Len(SelectSeq(returns, LAMBDA r : RLess(RZero, r)))

\* positive_days / len(returns) * 100 if len(returns) > 0 else 0
WinRate(returns) ==
    IF Len(returns) > 0 THEN <<PositiveDays(returns) * 100, Len(returns)>> ELSE RZero

\* calculate_performance: the rows over the days from start_date to end_date,
\* which after the boundary checks are the first and the last date of the rows
DataCompletenessFull(total_trading_days, start_date, end_date) ==
    LET expected_days == DaysBetween(end_date, start_date)
    IN  IF expected_days > 0 THEN <<total_trading_days * 100, expected_days>> ELSE RZero

\* update_performance_monthly: the rows over (last_date - first_date).days + 1
DataCompletenessMonthly(total_trading_days, first_date, last_date) ==
    LET expected_days_total == DaysBetween(last_date, first_date) + 1
    IN  IF expected_days_total > 0 THEN <<total_trading_days * 100, expected_days_total>>
        ELSE RZero

\* calculate_performance.calculate_performance_metrics after validation: the
\* fields of the record computed from the rows
MetricsFull(ps, dates, years) ==
    LET start_price == ps[1]
        end_price   == ps[Len(ps)]
        annualized  == AnnualizedReturn(start_price, end_price, years)
        dd          == calculate_max_drawdown(ps)
        ml          == calculate_max_loss_from_entry(ps, start_price)
    IN  [start_price              |-> start_price,
         end_price                |-> end_price,
         min_price                |-> SeqMin(ps),
         max_price                |-> SeqMax(ps),
         total_return_pct         |-> RTimes100(<<end_price - start_price, start_price>>),
         annualized_return_pct    |-> annualized,
         max_drawdown_pct         |-> dd.pct,
         max_drawdown_date        |-> IF dd.idx < Len(dates) THEN dates[dd.idx + 1]
                                      ELSE dates[Len(dates)],
         max_loss_from_entry_pct  |-> ml.pct,
         max_loss_from_entry_date |-> IF ml.idx < Len(dates) THEN dates[ml.idx + 1]
                                      ELSE dates[1],
         volatility_pct           |-> calculate_volatility(calculate_returns(ps)),
         sharpe_ratio             |-> calculate_sharpe_ratio(annualized,
                                         calculate_volatility(calculate_returns(ps))),
         sortino_ratio            |-> calculate_sortino_ratio(annualized,
                                         calculate_downside_deviation(calculate_returns(ps))),
         calmar_ratio             |-> calculate_calmar_ratio(annualized, dd.pct),
         positive_days            |-> PositiveDays(calculate_returns(ps)),
         negative_days            |-> Len(NegativeReturns(calculate_returns(ps))),
         win_rate_pct             |-> WinRate(calculate_returns(ps)),
         total_trading_days       |-> Len(ps),
         data_completeness_pct    |-> DataCompletenessFull(Len(ps), dates[1], dates[Len(dates)])]

\* update_performance_monthly.calculate_performance_metrics after validation
MetricsMonthly(ps, dates, years) ==
    LET start_price == ps[1]
        end_price   == ps[Len(ps)]
        annualized  == AnnualizedReturn(start_price, end_price, years)
        dd          == calculate_max_drawdown_monthly(ps)
        ml          == MaxLossMonthly(ps, start_price)
    IN  [start_price              |-> start_price,
         end_price                |-> end_price,
         min_price                |-> SeqMin(ps),
         max_price                |-> SeqMax(ps),
         total_return_pct         |-> RTimes100(<<end_price - start_price, start_price>>),
         annualized_return_pct    |-> annualized,
         max_drawdown_pct         |-> dd.pct,
         max_drawdown_date        |-> IF dd.idx < Len(dates) THEN dates[dd.idx + 1]
                                      ELSE dates[Len(dates)],
         max_loss_from_entry_pct  |-> ml.pct,
         max_loss_from_entry_date |-> dates[ml.idx + 1],
         volatility_pct           |-> calculate_volatility(calculate_returns(ps)),
         sharpe_ratio             |-> calculate_sharpe_ratio(annualized,
                                         calculate_volatility(calculate_returns(ps))),
         sortino_ratio            |-> calculate_sortino_ratio(annualized,
                                         calculate_downside_deviation(calculate_returns(ps))),
         calmar_ratio             |-> calculate_calmar_ratio(annualized, dd.pct),
         positive_days            |-> PositiveDays(calculate_returns(ps)),
         negative_days            |-> Len(NegativeReturns(calculate_returns(ps))),
         win_rate_pct             |-> WinRate(calculate_returns(ps)),
         total_trading_days       |-> Len(ps),
         data_completeness_pct    |-> DataCompletenessMonthly(Len(ps), dates[1], dates[Len(dates)])]

NoDate == [year |-> 0, month |-> 0, day |-> 0]

NoResult ==
    [start_price |-> 0, end_price |-> 0, min_price |-> 0, max_price |-> 0,
     total_return_pct |-> RZero, annualized_return_pct |-> NoAnnualizedReturn,
     max_drawdown_pct |-> RZero, max_drawdown_date |-> NoDate,
     max_loss_from_entry_pct |-> RZero, max_loss_from_entry_date |-> NoDate,
     volatility_pct |-> FZero, sharpe_ratio |-> RatioZero, sortino_ratio |-> RatioZero,
     calmar_ratio |-> CalmarZero,
     positive_days |-> 0, negative_days |-> 0, win_rate_pct |-> RZero,
     data_completeness_pct |-> RZero,
     total_trading_days |-> 0, max_dd_idx |-> 0, downside_dev |-> FZero]

\* a direct call of calculate_max_drawdown(prices): (max_drawdown_pct, index)
CallMaxDrawdown ==
    /\ m_pc = "call"
    /\ m_call = "max_drawdown"
    /\ LET dd == calculate_max_drawdown(prices)
       IN  m_out' = [NoResult EXCEPT !.max_drawdown_pct = dd.pct, !.max_dd_idx = dd.idx]
    /\ m_pc' = "done"
    /\ UNCHANGED <<orchVars, runVars, genVars, valVars, pdVars, dcaVars, m_call, prices, m_dates, m_years>>

\* calculate_performance.calculate_performance_metrics on a validated series
CallMetricsFull ==
    /\ m_pc = "call"
    /\ m_call = "full"
    /\ m_out' = MetricsFull(prices, m_dates, m_years)
                   @@ [max_dd_idx   |-> calculate_max_drawdown(prices).idx,
                       downside_dev |-> calculate_downside_deviation(calculate_returns(prices))]
    /\ m_pc' = "done"
    /\ UNCHANGED <<orchVars, runVars, genVars, valVars, pdVars, dcaVars, m_call, prices, m_dates, m_years>>

\* update_performance_monthly.calculate_performance_metrics on a validated series
CallMetricsMonthly ==
    /\ m_pc = "call"
    /\ m_call = "monthly"
    /\ m_out' = MetricsMonthly(prices, m_dates, m_years)
                   @@ [max_dd_idx   |-> calculate_max_drawdown_monthly(prices).idx,
                       downside_dev |-> calculate_downside_deviation(calculate_returns(prices))]
    /\ m_pc' = "done"
    /\ UNCHANGED <<orchVars, runVars, genVars, valVars, pdVars, dcaVars, m_call, prices, m_dates, m_years>>

(***************************************************************************)
(* simulate_dca and what calculate_dca_performance and main do with its    *)
(* result.  Floats are exact rationals in lowest terms.                    *)
(***************************************************************************)
INVESTMENT_PER_PERIOD == 100

RECURSIVE GCD(_, _)
GCD(a, b) == IF b = 0 THEN a ELSE GCD(b, a % b)

RNorm(a) ==
    IF a[1] = 0 THEN RZero
    ELSE LET g == GCD(IF a[1] < 0 THEN 0 - a[1] ELSE a[1], a[2])
         IN  <<a[1] \div g, a[2] \div g>>

RInt(n) == <<n, 1>>

RAdd(a, b) == RNorm(<<a[1] * b[2] + b[1] * a[2], a[2] * b[2]>>)

RSub(a, b) == RNorm(<<a[1] * b[2] - b[1] * a[2], a[2] * b[2]>>)

RMul(a, b) == RNorm(<<a[1] * b[1], a[2] * b[2]>>)

\* a / b for b > 0
RDiv(a, b) == RNorm(<<a[1] * b[2], a[2] * b[1]>>)

RECURSIVE RSum(_)
RSum(xs) == IF xs = <<>> THEN RZero ELSE RAdd(xs[1], RSum(Tail(xs)))

\* mutant: a scheduled date without a price is bought on the next date that has one
ExecutedWithMakeUp(schedule, dates) ==
    LET HasNext(d) == \E i \in 1 .. Len(dates) : ToOrdinal(dates[i]) >= ToOrdinal(d)
        NextOf(d)  == dates[CHOOSE i \in 1 .. Len(dates) :
                               /\ ToOrdinal(dates[i]) >= ToOrdinal(d)
                               /\ \A j \in 1 .. i - 1 : ToOrdinal(dates[j]) < ToOrdinal(d)]
        kept       == SelectSeq(schedule, HasNext)
    IN  [k \in 1 .. Len(kept) |-> NextOf(kept[k])]

\* for purchase_date in purchase_dates: if purchase_date in price_dict
Executed(schedule, dates) ==
    SelectSeq(schedule, LAMBDA d : \E i \in 1 .. Len(dates) : dates[i] = d)

\* the purchases list: price_dict[purchase_date], investment_per_period / price
Purchases(dates, ps, schedule, investment_per_period) ==
    LET bought     == Executed(schedule, dates)
        PriceOn(d) == ps[CHOOSE i \in 1 .. Len(dates) : dates[i] = d]
    IN  [k \in 1 .. Len(bought) |->
            [date     |-> bought[k],
             price    |-> PriceOn(bought[k]),
             units    |-> RDiv(RInt(investment_per_period), RInt(PriceOn(bought[k]))),
             invested |-> investment_per_period]]

\* sum(p[field] for p in purchases if p['date'] <= date)
UnitsSoFar(purchases, date) ==
    RSum([k \in 1 .. Len(purchases) |->
             IF ToOrdinal(purchases[k].date) <= ToOrdinal(date)
             THEN purchases[k].units ELSE RZero])

InvestedSoFar(purchases, date) ==
    RSum([k \in 1 .. Len(purchases) |->
             IF ToOrdinal(purchases[k].date) <= ToOrdinal(date)
             THEN RInt(purchases[k].invested) ELSE RZero])

RECURSIVE DcaDrawdownLoop(_, _, _, _, _)
\* the drawdown loop over active_portfolio_values
DcaDrawdownLoop(vals, i, peak, max_dd, max_dd_idx) ==
    IF i > Len(vals)
    THEN [pct |-> RAbsTimes100(max_dd), idx |-> max_dd_idx]
    ELSE LET val   == vals[i]
             peak2 == IF RLess(peak, val) THEN val ELSE peak
             dd    == IF RLess(RZero, peak2) THEN RDiv(RSub(val, peak2), peak2) ELSE RZero
         IN  IF RLess(dd, max_dd)
             THEN DcaDrawdownLoop(vals, i + 1, peak2, dd, i - 1)
             ELSE DcaDrawdownLoop(vals, i + 1, peak2, max_dd, max_dd_idx)

\* mutant: the lump sum is bought at the final price
LumpsumUnitsAtFinal(total_invested, ps) == RDiv(total_invested, RInt(ps[Len(ps)]))

\* lumpsum_units = total_invested / first_price
LumpsumUnits(total_invested, ps) == RDiv(total_invested, RInt(ps[1]))

\* the annualized return 0
DcaAnnualizedZero == [zero |-> TRUE, base |-> RZero, root |-> RZero]

\* the float 0 as a ratio of the simulation
DcaRatioZero == [zero |-> TRUE, num |-> DcaAnnualizedZero, den |-> FZero]

NoDcaRecord ==
    [total_invested |-> RZero, number_of_purchases |-> 0,
     average_purchase_price |-> RZero, total_units_acquired |-> RZero,
     final_value |-> RZero, total_return_pct |-> RZero,
     annualized_return_pct |-> DcaAnnualizedZero,
     min_price |-> 0, max_price |-> 0, final_price |-> 0,
     volatility_pct |-> FZero,
     max_drawdown_pct |-> RZero, max_drawdown_date |-> NoDate,
     max_loss_from_cost_pct |-> RZero, max_loss_from_cost_date |-> NoDate,
     sharpe_ratio |-> DcaRatioZero, sortino_ratio |-> DcaRatioZero,
     calmar_ratio |-> DcaRatioZero,
     best_purchase_price |-> 0, worst_purchase_price |-> 0,
     price_variance_pct |-> RZero,
     lumpsum_return_pct |-> RZero, dca_vs_lumpsum_diff |-> RZero,
     downside_dev |-> FZero, holding_period_years |-> 0]

\* Python's None
None == [none |-> TRUE, rec |-> NoDcaRecord]

\* simulate_dca(price_data, purchase_dates, investment_per_period), price_data
\* being the rows (dates[i], ps[i]); the record carries the local downside_dev
simulate_dca(dates, ps, schedule, investment_per_period) ==
    LET purchases == Purchases(dates, ps, schedule, investment_per_period)
    IN  IF purchases = <<>> THEN None
        ELSE
        LET n              == Len(ps)
            total_invested == RInt(investment_per_period * Len(purchases))
            total_units    == RSum([k \in 1 .. Len(purchases) |-> purchases[k].units])
            average_purchase_price ==
                IF RLess(RZero, total_units) THEN RDiv(total_invested, total_units) ELSE RZero
            final_price    == ps[n]
            final_value    == RMul(total_units, RInt(final_price))
            portfolio_values ==
                [i \in 1 .. n |-> RMul(UnitsSoFar(purchases, dates[i]), RInt(ps[i]))]
            total_return_pct ==
                IF RLess(RZero, total_invested)
                THEN RTimes100(RDiv(RSub(final_value, total_invested), total_invested))
                ELSE RZero
            first_purchase_idx ==
                IF \E i \in 1 .. n : RLess(RZero, portfolio_values[i])
                THEN (CHOOSE i \in 1 .. n :
                         /\ RLess(RZero, portfolio_values[i])
                         /\ \A j \in 1 .. i - 1 : ~RLess(RZero, portfolio_values[j])) - 1
                ELSE 0
            active_portfolio_values == SubSeq(portfolio_values, first_purchase_idx + 1, n)
            m              == Len(active_portfolio_values)
            \* np.diff(active) / active[:-1]; every active value is positive, so
            \* the isfinite filter drops nothing
            portfolio_returns ==
                IF m > 1
                THEN [i \in 1 .. m - 1 |->
                         RDiv(RSub(active_portfolio_values[i + 1], active_portfolio_values[i]),
                              active_portfolio_values[i])]
                ELSE <<>>
            volatility_pct ==
                IF m > 1 /\ Len(portfolio_returns) > 1
                THEN [SampleStd(portfolio_returns) EXCEPT !.times = 100]
                ELSE FZero
            dd ==
                IF m > 1
                THEN DcaDrawdownLoop(active_portfolio_values, 1,
                                     active_portfolio_values[1], RZero, 0)
                ELSE [pct |-> RZero, idx |-> 0 - first_purchase_idx]
            cost_basis == [i \in 1 .. n |-> InvestedSoFar(purchases, dates[i])]
            loss_from_cost ==
                [i \in 1 .. n |->
                    IF RLess(RZero, cost_basis[i])
                    THEN RDiv(RSub(portfolio_values[i], cost_basis[i]), cost_basis[i])
                    ELSE RZero]
            max_loss_idx ==
                (CHOOSE i \in first_purchase_idx + 1 .. n :
                    /\ \A j \in first_purchase_idx + 1 .. n :
                          RLeq(loss_from_cost[i], loss_from_cost[j])
                    /\ \A j \in first_purchase_idx + 1 .. i - 1 :
                          ~REq(loss_from_cost[j], loss_from_cost[i])) - 1
            negative_returns == NegativeReturns(portfolio_returns)
            downside_dev ==
                IF Len(portfolio_returns) > 0 /\ Len(negative_returns) > 1
                THEN SampleStd(negative_returns)
                ELSE FZero
            purchase_prices == [k \in 1 .. Len(purchases) |-> purchases[k].price]
            best_purchase_price  == SeqMin(purchase_prices)
            worst_purchase_price == SeqMax(purchase_prices)
            lumpsum_units        == LumpsumUnits(total_invested, ps)
            lumpsum_final_value  == RMul(lumpsum_units, RInt(final_price))
            lumpsum_return_pct   ==
                IF RLess(RZero, total_invested)
                THEN RTimes100(RDiv(RSub(lumpsum_final_value, total_invested), total_invested))
                ELSE RZero
            holding_years  == RNorm(<<DaysBetween(dates[n], dates[1]), 365>>)
            annualized_return_pct ==
                IF RLess(RZero, holding_years) /\ RLess(RZero, total_invested)
                THEN [zero |-> FALSE, base |-> RDiv(final_value, total_invested),
                      root |-> holding_years]
                ELSE DcaAnnualizedZero
        IN  [none |-> FALSE,
             rec  |->
               [total_invested         |-> total_invested,
                number_of_purchases    |-> Len(purchases),
                average_purchase_price |-> average_purchase_price,
                total_units_acquired   |-> total_units,
                final_value            |-> final_value,
                total_return_pct       |-> RNorm(total_return_pct),
                annualized_return_pct  |-> annualized_return_pct,
                min_price              |-> SeqMin(ps),
                max_price              |-> SeqMax(ps),
                final_price            |-> final_price,
                volatility_pct         |-> volatility_pct,
                max_drawdown_pct       |-> RNorm(dd.pct),
                max_drawdown_date      |-> dates[first_purchase_idx + dd.idx + 1],
                max_loss_from_cost_pct |-> RNorm(RTimes100(loss_from_cost[max_loss_idx + 1])),
                max_loss_from_cost_date |-> dates[max_loss_idx + 1],
                sharpe_ratio  |-> IF volatility_pct.kind = "pos"
                                  THEN [zero |-> FALSE, num |-> annualized_return_pct,
                                        den |-> volatility_pct]
                                  ELSE DcaRatioZero,
                sortino_ratio |-> IF downside_dev.kind = "pos"
                                  THEN [zero |-> FALSE, num |-> annualized_return_pct,
                                        den |-> downside_dev]
                                  ELSE DcaRatioZero,
                calmar_ratio  |-> IF RLess(RZero, dd.pct)
                                  THEN [zero |-> FALSE, num |-> annualized_return_pct,
                                        den |-> [kind |-> "pos", sample |-> <<RNorm(dd.pct)>>,
                                                 times |-> 1]]
                                  ELSE DcaRatioZero,
                best_purchase_price    |-> best_purchase_price,
                worst_purchase_price   |-> worst_purchase_price,
                price_variance_pct     |->
                    IF best_purchase_price > 0
                    THEN RNorm(<<(worst_purchase_price - best_purchase_price) * 100,
                                 best_purchase_price>>)
                    ELSE RZero,
                lumpsum_return_pct     |-> RNorm(lumpsum_return_pct),
                dca_vs_lumpsum_diff    |-> RSub(total_return_pct, lumpsum_return_pct),
                downside_dev           |-> downside_dev,
                holding_period_years   |-> 0]]

\* calculate_dca_performance from `if not purchase_dates` on: None for an empty
\* schedule or when simulate_dca gave None, else the record with its metadata
DcaAfterValidation(dates, ps, schedule, holding_years) ==
    IF schedule = <<>> THEN None
    ELSE LET metrics == simulate_dca(dates, ps, schedule, INVESTMENT_PER_PERIOD)
         IN  IF metrics.none THEN None
             ELSE [metrics EXCEPT !.rec.holding_period_years = holding_years]

\* mutant: whatever the task returned is appended
CollectAlways(batch, result) == Append(batch, result.rec)

\* main: result = future.result(); if result: results_batch.append(result)
Collect(batch, result) == IF result.none THEN batch ELSE Append(batch, result.rec)

\* process_single_period: calculate_dca_performance on a validated window
CallDcaPerformance ==
    /\ d_pc = "call"
    /\ d_out' = DcaAfterValidation(m_dates, prices, d_schedule, m_years)
    /\ d_pc' = "returned"
    /\ UNCHANGED <<orchVars, runVars, genVars, valVars, pdVars, metVars, d_schedule, results_batch>>

\* main's loop body for the finished task
DcaCollect ==
    /\ d_pc = "returned"
    /\ results_batch' = Collect(results_batch, d_out)
    /\ d_pc' = "done"
    /\ UNCHANGED <<orchVars, runVars, genVars, valVars, pdVars, metVars, d_schedule, d_out>>

(***************************************************************************)
(* The full runs: calculate_performance.main with process_asset, and       *)
(* calculate_dca_performance.main with process_single_period.  The DCA     *)
(* script has MAX_WORKERS = 1: its tasks are worked off one after the      *)
(* other in the order of submission.  calculate_performance works on three *)
(* assets at a time; each process_asset has its own results list and       *)
(* writes only rows of its own symbol, so the assets are taken in turn.    *)
(* A table row is a run of days with one price; of a record the model      *)
(* carries the key, the columns read off the first and last row, and       *)
(* updated_at (the number of the run).                                     *)
(***************************************************************************)
\* how often the script is started
MaxRuns == 2

\* get_all_assets_with_data(): the symbols with enough rows
ASSETS == <<"BTC", "GOLD">>

RECURSIVE WindowsOfPeriod(_, _, _)
\* the while loop of one holding period: the windows it passes through
WindowsOfPeriod(cs, holding_years, now) ==
    IF DtGreater(EndDateFor(cs, holding_years), now) THEN <<>>
    ELSE <<[start_date    |-> Strftime(cs),
            end_date      |-> Strftime(EndDateFor(cs, holding_years)),
            holding_years |-> holding_years]>>
         \o WindowsOfPeriod(NextMonthFirst(cs), holding_years, now)

RECURSIVE Flatten(_)
Flatten(ss) == IF ss = <<>> THEN <<>> ELSE ss[1] \o Flatten(Tail(ss))

\* for holding_years in HOLDING_PERIODS: while True: ...
AssetWindows(now) ==
    Flatten([i \in 1 .. Len(HOLDING_PERIODS) |->
                WindowsOfPeriod(FirstStart(Strptime(START_DATE_DEFAULT)),
                                HOLDING_PERIODS[i], now)])

RunTask(symbol, w, frequency) ==
    [symbol |-> symbol, start_date |-> w.start_date, end_date |-> w.end_date,
     holding_years |-> w.holding_years, frequency |-> frequency]

\* calculate_dca_performance.main: for asset, for holding_years, for frequency, while True
DcaTasks(now) ==
    Flatten([a \in 1 .. Len(ASSETS) |->
      Flatten([i \in 1 .. Len(HOLDING_PERIODS) |->
        Flatten([j \in 1 .. Len(DCA_FREQUENCIES) |->
          LET ws == WindowsOfPeriod(FirstStart(Strptime(START_DATE_DEFAULT)),
                                    HOLDING_PERIODS[i], now)
          IN  [k \in 1 .. Len(ws) |-> RunTask(ASSETS[a], ws[k], DCA_FREQUENCIES[j])]])])])

\* process_asset's calls, in order
BhTasks(now) ==
    Flatten([a \in 1 .. Len(ASSETS) |->
                [k \in 1 .. Len(AssetWindows(now)) |->
                    RunTask(ASSETS[a], AssetWindows(now)[k], "none")]])

NoRow == [symbol |-> "", start_date |-> <<0, 0, 0>>, end_date |-> <<0, 0, 0>>,
          holding_period_years |-> 0, dca_frequency |-> "",
          total_return_pct |-> RZero, updated_at |-> 0]

\* the buy-and-hold record of an accepted series
BhMetrics(t, rows) ==
    [symbol               |-> t.symbol,
     start_date           |-> t.start_date,
     end_date             |-> t.end_date,
     holding_period_years |-> t.holding_years,
     dca_frequency        |-> t.frequency,
     start_price          |-> rows[1].price,
     end_price            |-> rows[Len(rows)].price,
     total_return_pct     |-> RNorm(<<(rows[Len(rows)].price - rows[1].price) * 100,
                                      rows[1].price>>),
     total_trading_days   |-> RowCount(rows),
     updated_at           |-> 0]

\* calculate_performance.calculate_performance_metrics on the stored table:
\* raises, returns None, or returns the record
EvaluateBH(t) ==
    LET rows == GetPriceData(store[t.symbol], t.start_date, t.end_date)
        v    == ValidateBH(rows, t.start_date, t.end_date, t.holding_years)
    IN  IF v = "IndexError" THEN [raised |-> TRUE, none |-> TRUE, rec |-> NoRow]
        ELSE IF v = "accept" THEN [raised |-> FALSE, none |-> FALSE, rec |-> BhMetrics(t, rows)]
        ELSE [raised |-> FALSE, none |-> TRUE, rec |-> NoRow]

\* some date of the schedule has a row: every day (daily), a Monday (weekly) or
\* a first of a month (monthly) lies in a run of the fetched rows
AnyPurchase(rows, frequency) ==
    \E i \in 1 .. Len(rows) :
        \/ frequency = "daily"
        \/ /\ frequency = "weekly"
           /\ \E o \in rows[i].lo .. Min(rows[i].hi, rows[i].lo + 6) :
                 Weekday(FromOrdinal(o)) = 0
        \/ /\ frequency = "monthly"
           /\ LET d == FromOrdinal(rows[i].lo)
                  firstOrd == IF d.day = 1 THEN rows[i].lo
                              ELSE ToOrdinal(DateOf(NextMonthFirst(Datetime(d.year, d.month, 1))))
              IN  firstOrd <= rows[i].hi

\* the number of scheduled dates that have a row in one run of days: every
\* day, the Mondays, or the firsts of a month
PurchasesIn(run, frequency) ==
    IF frequency = "daily" THEN run.hi - run.lo + 1
    ELSE IF frequency = "weekly" THEN ((run.hi - 1) \div 7) - ((run.lo - 2) \div 7)
    ELSE LET a == FromOrdinal(run.lo)
             b == FromOrdinal(run.hi)
         IN  (b.year * 12 + b.month) - (a.year * 12 + a.month)
             + (IF a.day = 1 THEN 1 ELSE 0)

RECURSIVE PurchaseTotals(_, _)
\* number_of_purchases and total_units / investment_per_period over the rows
PurchaseTotals(rows, frequency) ==
    IF rows = <<>> THEN [n |-> 0, units |-> RZero]
    ELSE LET rest == PurchaseTotals(Tail(rows), frequency)
             k    == PurchasesIn(rows[1], frequency)
         IN  [n     |-> k + rest.n,
              units |-> RAdd(RNorm(<<k, rows[1].price>>), rest.units)]

\* (final_value - total_invested) / total_invested * 100
DcaTotalReturn(rows, frequency) ==
    LET tot    == PurchaseTotals(rows, frequency)
        growth == RDiv(RMul(tot.units, RInt(rows[Len(rows)].price)), RInt(tot.n))
    IN  RMul(RSub(growth, RInt(1)), RInt(100))

\* the DCA record of an accepted series with at least one purchase
DcaMetrics(t, rows) ==
    [symbol               |-> t.symbol,
     start_date           |-> t.start_date,
     end_date             |-> t.end_date,
     holding_period_years |-> t.holding_years,
     dca_frequency        |-> t.frequency,
     number_of_purchases  |-> PurchaseTotals(rows, t.frequency).n,
     total_return_pct     |-> DcaTotalReturn(rows, t.frequency),
     final_price          |-> rows[Len(rows)].price,
     lumpsum_return_pct   |-> RNorm(<<(rows[Len(rows)].price - rows[1].price) * 100,
                                      rows[1].price>>),
     updated_at           |-> 0]

\* calculate_dca_performance on the stored table
EvaluateDCA(t) ==
    LET rows == GetPriceData(store[t.symbol], t.start_date, t.end_date)
        v    == ValidateDCA(rows, t.start_date, t.end_date, t.holding_years)
    IN  IF v = "IndexError" THEN [raised |-> TRUE, none |-> TRUE, rec |-> NoRow]
        ELSE IF v = "accept" /\ AnyPurchase(rows, t.frequency)
             THEN [raised |-> FALSE, none |-> FALSE, rec |-> DcaMetrics(t, rows)]
        ELSE [raised |-> FALSE, none |-> TRUE, rec |-> NoRow]

\* the conflict target of the two tables: (symbol, start_date, end_date) and
\* (symbol, start_date, end_date, dca_frequency); dca_frequency is "none" in the first
RowKey(d) == <<d.symbol, d.start_date, d.end_date, d.dca_frequency>>

\* mutant: a plain INSERT into a table without the unique key
InsertDuplicating(table, d, now) == table \cup {[d EXCEPT !.updated_at = now]}

\* INSERT ... ON CONFLICT (...) DO UPDATE SET: of the carried columns only
\* total_return_pct and updated_at are overwritten
Upsert(table, d, now) ==
    IF \E old \in table : RowKey(old) = RowKey(d)
    THEN LET old == CHOOSE o \in table : RowKey(o) = RowKey(d)
         IN  (table \ {old}) \cup
             {[old EXCEPT !.total_return_pct = d.total_return_pct, !.updated_at = now]}
    ELSE table \cup {[d EXCEPT !.updated_at = now]}

RECURSIVE InsertBatch(_, _, _)
\* insert_performance_batch / insert_dca_performance_batch: execute_batch and commit
InsertBatch(table, performance_data, now) ==
    IF performance_data = <<>> THEN table
    ELSE InsertBatch(Upsert(table, performance_data[1], now), Tail(performance_data), now)

\* what a call of insert_performance_batch / insert_dca_performance_batch with
\* a non-empty batch leaves behind: the batch committed, or, the database
\* refusing, `except Exception: conn.rollback(); return 0`
InsertOutcomes(table, performance_data, now) ==
    IF performance_data = <<>> THEN {[table |-> table, faults |-> db_faults]}
    ELSE {[table |-> InsertBatch(table, performance_data, now), faults |-> db_faults]}
         \cup (IF db_faults > 0 THEN {[table |-> table, faults |-> db_faults - 1]} ELSE {})

\* if len(results_batch) >= 1000
DCA_FLUSH_AT == 1000

\* the number of windows process_asset goes through for one asset
WindowsPerAsset == Len(r_tasks) \div Len(ASSETS)

\* mutant: whatever the call returned is appended
BhKeepAlways(rs, metrics) == Append(rs, metrics.rec)

\* process_asset: if metrics: results.append(metrics)
BhKeep(rs, metrics) == IF metrics.none THEN rs ELSE Append(rs, metrics.rec)

\* process_asset, one pass of the while loop.  An exception of the call leaves
\* process_asset: its results list is lost, main's `except` prints the error
\* and the loop over the futures goes on with the next asset.
RunBhWindow ==
    /\ r_mode = "bh"
    /\ r_pc = "loop"
    /\ r_asset_i <= Len(ASSETS)
    /\ r_win_i <= WindowsPerAsset
    /\ LET t       == r_tasks[(r_asset_i - 1) * WindowsPerAsset + r_win_i]
           metrics == EvaluateBH(t)
       IN  IF t \in fail_on \/ metrics.raised
           THEN /\ results' = <<>>
                /\ r_asset_i' = r_asset_i + 1
                /\ r_win_i' = 1
                /\ UNCHANGED evaluated
           ELSE /\ results' = BhKeep(results, metrics)
                /\ r_win_i' = r_win_i + 1
                /\ evaluated' = evaluated \cup {t}
                /\ UNCHANGED r_asset_i
    /\ UNCHANGED <<orchVars, genVars, valVars, pdVars, metVars, dcaVars,
                   r_mode, r_today, r_tasks, store, fail_on, db_faults, r_run, r_pc, sink, sink_first, completed>>

\* process_asset after its loops: the asset's results are inserted; main counts it
RunBhInsert ==
    /\ r_mode = "bh"
    /\ r_pc = "loop"
    /\ r_asset_i <= Len(ASSETS)
    /\ r_win_i > WindowsPerAsset
    /\ \E o \in InsertOutcomes(sink, results, r_run) :
          /\ sink' = o.table
          /\ db_faults' = o.faults
    /\ results' = <<>>
    /\ completed' = completed + 1
    /\ r_asset_i' = r_asset_i + 1
    /\ r_win_i' = 1
    /\ UNCHANGED <<orchVars, genVars, valVars, pdVars, metVars, dcaVars,
                   r_mode, r_today, r_tasks, store, fail_on, r_run, r_pc, sink_first, evaluated>>

\* calculate_performance.main after the last future: the summary
RunBhSummary ==
    /\ r_mode = "bh"
    /\ r_pc = "loop"
    /\ r_asset_i > Len(ASSETS)
    /\ r_pc' = "summary"
    /\ sink_first' = IF r_run = 1 THEN sink ELSE sink_first
    /\ UNCHANGED <<orchVars, genVars, valVars, pdVars, metVars, dcaVars,
                   r_mode, r_today, r_tasks, store, fail_on, db_faults, r_run, r_asset_i, r_win_i,
                   results, sink, evaluated, completed>>

\* calculate_dca_performance.main, the body of the loop over the futures for
\* one task: an exception is caught here and the task neither counted nor kept
RunDcaTask ==
    /\ r_mode = "dca"
    /\ r_pc = "loop"
    /\ r_asset_i <= Len(r_tasks)
    /\ LET t      == r_tasks[r_asset_i]
           result == EvaluateDCA(t)
       IN  IF t \in fail_on \/ result.raised
           THEN UNCHANGED <<results_batch, sink, db_faults, completed, evaluated>>
           ELSE LET batch == Collect(results_batch, result)
                IN  /\ completed' = completed + 1
                    /\ evaluated' = evaluated \cup {t}
                    /\ IF Len(batch) >= DCA_FLUSH_AT
                       THEN /\ \E o \in InsertOutcomes(sink, batch, r_run) :
                                  /\ sink' = o.table
                                  /\ db_faults' = o.faults
                            /\ results_batch' = <<>>
                       ELSE /\ results_batch' = batch
                            /\ UNCHANGED <<sink, db_faults>>
    /\ r_asset_i' = r_asset_i + 1
    /\ UNCHANGED <<orchVars, genVars, valVars, pdVars, metVars, d_schedule, d_out, d_pc,
                   r_mode, r_today, r_tasks, store, fail_on, r_run, r_pc, r_win_i,
                   results, sink_first>>

\* calculate_dca_performance.main after the loop: the remaining batch, the summary
RunDcaSummary ==
    /\ r_mode = "dca"
    /\ r_pc = "loop"
    /\ r_asset_i > Len(r_tasks)
    /\ \E o \in InsertOutcomes(sink, results_batch, r_run) :
          /\ sink' = o.table
          /\ db_faults' = o.faults
    /\ results_batch' = <<>>
    /\ r_pc' = "summary"
    /\ sink_first' = IF r_run = 1 THEN sink' ELSE sink_first
    /\ UNCHANGED <<orchVars, genVars, valVars, pdVars, metVars, d_schedule, d_out, d_pc,
                   r_mode, r_today, r_tasks, store, fail_on, r_run, r_asset_i, r_win_i,
                   results, evaluated, completed>>

\* fetch_asset_light.insert_batch_to_db on rows that exist: the price of a
\* (symbol, date) is overwritten
RevisedTable(table) == [i \in 1 .. Len(table) |-> [table[i] EXCEPT !.price = @ + 10]]

\* the script is started again after the prices of some assets were rewritten
RunAgainRevised ==
    /\ r_pc = "summary"
    /\ r_run < MaxRuns
    /\ \E A \in SUBSET {ASSETS[i] : i \in 1 .. Len(ASSETS)} :
          /\ A # {}
          /\ store' = [a \in DOMAIN store |->
                          IF a \in A THEN RevisedTable(store[a]) ELSE store[a]]
    /\ r_run' = r_run + 1
    /\ r_pc' = "loop"
    /\ r_asset_i' = 1
    /\ r_win_i' = 1
    /\ results' = <<>>
    /\ evaluated' = {}
    /\ completed' = 0
    /\ UNCHANGED <<orchVars, genVars, valVars, pdVars, metVars, dcaVars,
                   r_mode, r_today, r_tasks, fail_on, db_faults, sink, sink_first>>

\* the script is started again, on the same store and with the same today
RunAgain ==
    /\ r_pc = "summary"
    /\ r_run < MaxRuns
    /\ r_run' = r_run + 1
    /\ r_pc' = "loop"
    /\ r_asset_i' = 1
    /\ r_win_i' = 1
    /\ results' = <<>>
    /\ evaluated' = {}
    /\ completed' = 0
    /\ UNCHANGED <<orchVars, genVars, valVars, pdVars, metVars, dcaVars,
                   r_mode, r_today, r_tasks, store, fail_on, db_faults, sink, sink_first>>

(***************************************************************************)
(* The worker pool: ThreadPoolExecutor(max_workers=MAX_WORKERS), one       *)
(* future per unit (a task of calculate_dca_performance, an asset of       *)
(* calculate_performance), and main's loop over as_completed.  r_asset_i   *)
(* is the next unit of the work queue; p_running and p_finished hold the   *)
(* numbers of the units.                                                   *)
(***************************************************************************)
\* the number of futures submitted
PoolUnits == IF r_mode = "dca" THEN Len(r_tasks) ELSE Len(ASSETS)

\* an idle worker takes the next unit of the queue
PoolStart ==
    /\ r_pc = "pool"
    /\ r_asset_i <= PoolUnits
    /\ Cardinality(p_running) < p_workers
    /\ p_running' = p_running \cup {r_asset_i}
    /\ r_asset_i' = r_asset_i + 1
    /\ UNCHANGED <<gridVars, bufVars, genVars, valVars, pdVars, metVars, dcaVars,
                   p_workers, p_finished,
                   r_mode, r_today, r_tasks, store, fail_on, db_faults, r_run, r_pc, r_win_i,
                   results, sink, sink_first, evaluated, completed>>

\* mutant: the worker appends its result and counts the task itself
WorkerReturnsAppending(u) ==
    /\ results_batch' = Collect(results_batch, EvaluateDCA(r_tasks[u]))
    /\ completed' = completed + 1

\* process_single_period in a worker: the metrics are the future's result,
\* nothing of main is touched
WorkerReturns(u) == UNCHANGED <<results_batch, completed>>

\* a worker of calculate_dca_performance finishes its task
PoolWorkerDca ==
    /\ r_mode = "dca"
    /\ r_pc = "pool"
    /\ \E u \in p_running :
          /\ p_running' = p_running \ {u}
          /\ p_finished' = p_finished \cup {u}
          /\ WorkerReturns(u)
    /\ UNCHANGED <<gridVars, bufVars, genVars, valVars, pdVars, metVars,
                   d_schedule, d_out, d_pc, p_workers,
                   r_mode, r_today, r_tasks, store, fail_on, db_faults, r_run, r_pc,
                   r_asset_i, r_win_i, results, sink, sink_first, evaluated>>

RECURSIVE BhAssetResults(_, _, _)
\* process_asset's loops over the windows of asset a from window k on: the
\* results list, or the exception that leaves the function
BhAssetResults(a, k, rs) ==
    IF k > WindowsPerAsset THEN [raised |-> FALSE, results |-> rs]
    ELSE LET t       == r_tasks[(a - 1) * WindowsPerAsset + k]
             metrics == EvaluateBH(t)
         IN  IF t \in fail_on \/ metrics.raised
             THEN [raised |-> TRUE, results |-> <<>>]
             ELSE BhAssetResults(a, k + 1, BhKeep(rs, metrics))

\* a worker of calculate_performance finishes process_asset: the asset's own
\* results are inserted over the worker's own connection
PoolWorkerBh ==
    /\ r_mode = "bh"
    /\ r_pc = "pool"
    /\ \E u \in p_running :
          /\ p_running' = p_running \ {u}
          /\ p_finished' = p_finished \cup {u}
          /\ LET out == BhAssetResults(u, 1, <<>>)
             IN  \E o \in InsertOutcomes(sink, out.results, r_run) :
                    /\ sink' = o.table
                    /\ db_faults' = o.faults
    /\ UNCHANGED <<gridVars, bufVars, genVars, valVars, pdVars, metVars, dcaVars,
                   p_workers,
                   r_mode, r_today, r_tasks, store, fail_on, r_run, r_pc,
                   r_asset_i, r_win_i, results, sink_first, evaluated, completed>>

\* calculate_dca_performance.main, the body of the loop over as_completed for
\* a future that is done
PoolTakeDca ==
    /\ r_mode = "dca"
    /\ r_pc = "pool"
    /\ \E u \in p_finished :
          /\ p_finished' = p_finished \ {u}
          /\ LET t      == r_tasks[u]
                 result == EvaluateDCA(t)
             IN  IF t \in fail_on \/ result.raised
                 THEN UNCHANGED <<results_batch, sink, db_faults, completed>>
                 ELSE LET batch == Collect(results_batch, result)
                      IN  /\ completed' = completed + 1
                          /\ IF Len(batch) >= DCA_FLUSH_AT
                             THEN /\ \E o \in InsertOutcomes(sink, batch, r_run) :
                                        /\ sink' = o.table
                                        /\ db_faults' = o.faults
                                  /\ results_batch' = <<>>
                             ELSE /\ results_batch' = batch
                                  /\ UNCHANGED <<sink, db_faults>>
    /\ UNCHANGED <<gridVars, bufVars, genVars, valVars, pdVars, metVars,
                   d_schedule, d_out, d_pc, p_workers, p_running,
                   r_mode, r_today, r_tasks, store, fail_on, r_run, r_pc,
                   r_asset_i, r_win_i, results, sink_first, evaluated>>

\* calculate_performance.main, the body of the loop over as_completed for a
\* future that is done: an asset whose process_asset raised is not counted
PoolTakeBh ==
    /\ r_mode = "bh"
    /\ r_pc = "pool"
    /\ \E u \in p_finished :
          /\ p_finished' = p_finished \ {u}
          /\ completed' = IF BhAssetResults(u, 1, <<>>).raised THEN completed
                          ELSE completed + 1
    /\ UNCHANGED <<gridVars, bufVars, genVars, valVars, pdVars, metVars, dcaVars,
                   p_workers, p_running,
                   r_mode, r_today, r_tasks, store, fail_on, db_faults, r_run, r_pc,
                   r_asset_i, r_win_i, results, sink, sink_first, evaluated>>

\* main after the with block: every future was taken; the remaining batch of
\* calculate_dca_performance is inserted; the summary
PoolSummary ==
    /\ r_pc = "pool"
    /\ r_asset_i > PoolUnits
    /\ p_running = {}
    /\ p_finished = {}
    /\ IF r_mode = "dca"
       THEN /\ \E o \in InsertOutcomes(sink, results_batch, r_run) :
                  /\ sink' = o.table
                  /\ db_faults' = o.faults
            /\ results_batch' = <<>>
       ELSE UNCHANGED <<sink, db_faults, results_batch>>
    /\ r_pc' = "summary"
    /\ sink_first' = sink'
    /\ UNCHANGED <<gridVars, bufVars, genVars, valVars, pdVars, metVars,
                   d_schedule, d_out, d_pc, poolVars,
                   r_mode, r_today, r_tasks, store, fail_on, r_run,
                   r_asset_i, r_win_i, results, evaluated, completed>>

(***************************************************************************)
(* The task grid: get_all_assets_with_data and the task loops of the two   *)
(* full runs and of the two monthly updaters.                              *)
(***************************************************************************)
\* price_tables of get_all_assets_with_data
PRICE_TABLES ==
    <<[table_name |-> "crypto_prices", asset_type |-> "crypto"],
      [table_name |-> "commodity_prices", asset_type |-> "commodity"],
      [table_name |-> "index_prices", asset_type |-> "index"]>>

\* update_performance_monthly / update_dca_monthly
LOOKBACK_DAYS == 10

\* cursor.fetchall() of a SELECT without ORDER BY: the symbols in some order
FetchOrders(S) ==
    {o \in [1 .. Cardinality(S) -> S] : \A i, j \in 1 .. Cardinality(S) : o[i] = o[j] => i = j}

\* [(s[0], asset_type, table_name) for s in symbols]
AssetsOfTable(i, symbols) ==
    [k \in 1 .. Len(symbols) |->
        [symbol     |-> symbols[k],
         asset_type |-> PRICE_TABLES[i].asset_type,
         table_name |-> PRICE_TABLES[i].table_name]]

\* get_all_assets_with_data: all_assets.extend(...) table after table
GetAllAssets ==
    /\ g_pc = "assets"
    /\ \E o1 \in FetchOrders(g_tables[PRICE_TABLES[1].table_name]) :
       \E o2 \in FetchOrders(g_tables[PRICE_TABLES[2].table_name]) :
       \E o3 \in FetchOrders(g_tables[PRICE_TABLES[3].table_name]) :
          g_assets' = AssetsOfTable(1, o1) \o AssetsOfTable(2, o2) \o AssetsOfTable(3, o3)
    /\ g_pc' = IF g_script \in {"bh", "dca"} THEN "tasks" ELSE "start_dates"
    /\ UNCHANGED <<genVars, valVars, pdVars, metVars, dcaVars, runVars, bufVars, poolVars,
                   g_script, g_today, g_tables, g_start_dates, g_tasks>>

\* a unit of work: the asset tuple, the window and the frequency ("none" for
\* buy-and-hold)
GridTask(asset, start_date, end_date, holding_years, frequency) ==
    [symbol        |-> asset.symbol,
     asset_type    |-> asset.asset_type,
     table_name    |-> asset.table_name,
     start_date    |-> start_date,
     end_date      |-> end_date,
     holding_years |-> holding_years,
     frequency     |-> frequency]

\* calculate_performance: process_asset's calls for the assets main submits
GridTasksBh(assets, now) ==
    Flatten([a \in 1 .. Len(assets) |->
      LET ws == AssetWindows(now)
      IN  [k \in 1 .. Len(ws) |->
              GridTask(assets[a], ws[k].start_date, ws[k].end_date,
                       ws[k].holding_years, "none")]])

\* calculate_dca_performance.main: all_tasks
GridTasksDca(assets, now) ==
    Flatten([a \in 1 .. Len(assets) |->
      Flatten([i \in 1 .. Len(HOLDING_PERIODS) |->
        Flatten([j \in 1 .. Len(DCA_FREQUENCIES) |->
          LET ws == WindowsOfPeriod(FirstStart(Strptime(START_DATE_DEFAULT)),
                                    HOLDING_PERIODS[i], now)
          IN  [k \in 1 .. Len(ws) |->
                  GridTask(assets[a], ws[k].start_date, ws[k].end_date,
                           ws[k].holding_years, DCA_FREQUENCIES[j])]])])])

\* the task loops of a full run
GenerateTasksFull ==
    /\ g_pc = "tasks"
    /\ g_script \in {"bh", "dca"}
    /\ g_tasks' = IF g_script = "bh" THEN GridTasksBh(g_assets, g_today)
                  ELSE GridTasksDca(g_assets, g_today)
    /\ g_pc' = "done"
    /\ UNCHANGED <<genVars, valVars, pdVars, metVars, dcaVars, runVars, bufVars, poolVars,
                   g_script, g_today, g_tables, g_assets, g_start_dates>>

\* today - timedelta(days=i)
DaysBefore(now, i) ==
    LET d == FromOrdinal(ToOrdinal(DateOf(now)) - i)
    IN  [year |-> d.year, month |-> d.month, day |-> d.day, tod |-> now.tod]

RECURSIVE StartDatesFrom(_, _)
\* for i in range(LOOKBACK_DAYS): if date.day == 1: start_dates.append(...)
StartDatesFrom(now, i) ==
    IF i >= LOOKBACK_DAYS THEN <<>>
    ELSE LET date == DaysBefore(now, i)
         IN  (IF date.day = 1 THEN <<Datetime(date.year, date.month, 1)>> ELSE <<>>)
             \o StartDatesFrom(now, i + 1)

\* the monthly scripts: start_dates, and `if not start_dates: return`
CollectStartDates ==
    /\ g_pc = "start_dates"
    /\ g_start_dates' = StartDatesFrom(g_today, 0)
    /\ g_pc' = IF g_start_dates' = <<>> THEN "done" ELSE "tasks"
    /\ UNCHANGED <<genVars, valVars, pdVars, metVars, dcaVars, runVars, bufVars, poolVars,
                   g_script, g_today, g_tables, g_assets, g_tasks>>

\* start_date + relativedelta(years=holding_years), start_date a first of a month
PlusYears(dt, years) == Datetime(dt.year + years, dt.month, dt.day)

\* the frequencies a script loops over
GridFrequencies(script) ==
    IF script \in {"dca", "dca_monthly"} THEN DCA_FREQUENCIES ELSE <<"none">>

\* the task loops of a monthly script: a task for each start date, asset,
\* holding period (and frequency) whose end_date <= today
GridTasksMonthly(script, start_dates, assets, now) ==
    Flatten([s \in 1 .. Len(start_dates) |->
      Flatten([a \in 1 .. Len(assets) |->
        Flatten([i \in 1 .. Len(HOLDING_PERIODS) |->
          Flatten([j \in 1 .. Len(GridFrequencies(script)) |->
            LET end_date == PlusYears(start_dates[s], HOLDING_PERIODS[i])
            IN  IF DtLessEq(end_date, now)
                THEN <<GridTask(assets[a], Strftime(start_dates[s]), Strftime(end_date),
                                HOLDING_PERIODS[i], GridFrequencies(script)[j])>>
                ELSE <<>>])])])])

GenerateTasksMonthly ==
    /\ g_pc = "tasks"
    /\ g_script \in {"bh_monthly", "dca_monthly"}
    /\ g_tasks' = GridTasksMonthly(g_script, g_start_dates, g_assets, g_today)
    /\ g_pc' = "done"
    /\ UNCHANGED <<genVars, valVars, pdVars, metVars, dcaVars, runVars, bufVars, poolVars,
                   g_script, g_today, g_tables, g_assets, g_start_dates>>

(***************************************************************************)
(* The records a script holds in memory for one asset: process_asset's     *)
(* results list, and main's results_batch of calculate_dca_performance     *)
(* while it takes the asset's tasks in the order they were generated.  Of  *)
(* the list only its length is kept.  The asset has a row for every day    *)
(* from b_listed on, so exactly the windows that start on or after         *)
(* b_listed give a record.                                                 *)
(***************************************************************************)
\* the frequencies the loops of the script pass through
BufFrequencies == IF b_script = "dca" THEN DCA_FREQUENCIES ELSE <<"none">>

\* the loops are at a window
BufAtWindow == b_pc = "loop" /\ b_hp_i <= Len(HOLDING_PERIODS)

\* `if end_date > today: break`: on to the next frequency or holding period
BufBreak ==
    /\ BufAtWindow
    /\ DtGreater(EndDateFor(b_start, HOLDING_PERIODS[b_hp_i]), b_today)
    /\ IF b_fq_i < Len(BufFrequencies)
       THEN b_fq_i' = b_fq_i + 1 /\ UNCHANGED b_hp_i
       ELSE b_fq_i' = 1 /\ b_hp_i' = b_hp_i + 1
    /\ b_start' = FirstStart(Strptime(START_DATE_DEFAULT))
    /\ UNCHANGED <<genVars, valVars, pdVars, metVars, dcaVars, runVars, gridVars, poolVars,
                   b_script, b_today, b_listed, b_len, b_pc>>

\* process_asset, one pass of `while True`: if metrics: results.append(metrics)
BufKeepBh ==
    /\ BufAtWindow
    /\ b_script = "bh"
    /\ ~DtGreater(EndDateFor(b_start, HOLDING_PERIODS[b_hp_i]), b_today)
    /\ b_len' = IF DtLessEq(b_listed, b_start) THEN b_len + 1 ELSE b_len
    /\ b_start' = NextMonthFirst(b_start)
    /\ UNCHANGED <<genVars, valVars, pdVars, metVars, dcaVars, runVars, gridVars, poolVars,
                   b_script, b_today, b_listed, b_hp_i, b_fq_i, b_pc>>

\* calculate_dca_performance.main, the loop body for one task:
\* if result: results_batch.append(result); if len(results_batch) >= 1000: insert
BufKeepDca ==
    /\ BufAtWindow
    /\ b_script = "dca"
    /\ ~DtGreater(EndDateFor(b_start, HOLDING_PERIODS[b_hp_i]), b_today)
    /\ LET n == IF DtLessEq(b_listed, b_start) THEN b_len + 1 ELSE b_len
       IN  b_len' = IF n >= DCA_FLUSH_AT THEN 0 ELSE n
    /\ b_start' = NextMonthFirst(b_start)
    /\ UNCHANGED <<genVars, valVars, pdVars, metVars, dcaVars, runVars, gridVars, poolVars,
                   b_script, b_today, b_listed, b_hp_i, b_fq_i, b_pc>>

\* after the loops: process_asset inserts its results, main the remaining batch
BufFinish ==
    /\ b_pc = "loop"
    /\ b_hp_i > Len(HOLDING_PERIODS)
    /\ b_len' = 0
    /\ b_pc' = "done"
    /\ UNCHANGED <<genVars, valVars, pdVars, metVars, dcaVars, runVars, gridVars, poolVars,
                   b_script, b_today, b_listed, b_hp_i, b_fq_i, b_start>>

(***************************************************************************)
(* Specification of the window generator.                                  *)
(***************************************************************************)
NoDatetime == [year |-> 0, month |-> 0, day |-> 0, tod |-> 0]

\* months beyond the shortest holding period that `today` lies after the epoch
MaxExtraMonths == 14

\* first day of the month k months after the month of dt
AddMonths(dt, k) ==
    LET idx == dt.year * 12 + (dt.month - 1) + k
    IN  Datetime(idx \div 12, (idx % 12) + 1, 1)

EpochChoices == {START_DATE_DEFAULT, <<2010, 1, 15>>, <<2010, 11, 1>>, <<2011, 12, 31>>}

\* values of datetime.now(): around the first day of a month, at midnight or
\* later, up to MaxExtraMonths after the shortest holding period has elapsed,
\* and the first day the longest holding period has elapsed
TodayChoices(epoch) ==
    { [year |-> d.year, month |-> d.month, day |-> d.day, tod |-> t] :
        d \in { AddDays(DateOf(AddMonths(Strptime(epoch), 12 * HOLDING_PERIODS[1] + k)), o) :
                  k \in 0 .. MaxExtraMonths, o \in {-1, 0, 1} }
              \cup { DateOf(AddMonths(Strptime(epoch),
                                      12 * HOLDING_PERIODS[Len(HOLDING_PERIODS)])) },
        t \in {0, 1} }

GenIdle ==
    /\ mode = "off"
    /\ START_DATE = START_DATE_DEFAULT
    /\ today = NoDatetime
    /\ hp_i = 1
    /\ fq_i = 1
    /\ current_start = NoDatetime
    /\ all_tasks = <<>>
    /\ gen_pc = "off"

ValIdle ==
    /\ price_table = <<>>
    /\ v_task = [start_date |-> START_DATE_DEFAULT, end_date |-> START_DATE_DEFAULT,
                 holding_years |-> 0]
    /\ bh_out = "off"
    /\ dca_out = "off"
    /\ mo_out = "off"

PdIdle ==
    /\ pd_args = [start_date |-> START_DATE_DEFAULT, end_date |-> START_DATE_DEFAULT,
                  frequency |-> "none"]
    /\ current = NoDatetime
    /\ purchase_dates = <<>>
    /\ pd_pc = "off"

RunIdle ==
    /\ r_mode = "off"
    /\ r_today = NoDatetime
    /\ r_tasks = <<>>
    /\ store = <<>>
    /\ fail_on = {}
    /\ db_faults = 0
    /\ r_run = 0
    /\ r_pc = "off"
    /\ r_asset_i = 0
    /\ r_win_i = 0
    /\ results = <<>>
    /\ sink = {}
    /\ sink_first = {}
    /\ evaluated = {}
    /\ completed = 0

GridIdle ==
    /\ g_script = "off"
    /\ g_today = NoDatetime
    /\ g_tables = <<>>
    /\ g_assets = <<>>
    /\ g_start_dates = <<>>
    /\ g_tasks = <<>>
    /\ g_pc = "off"

BufIdle ==
    /\ b_script = "off"
    /\ b_today = NoDatetime
    /\ b_listed = NoDatetime
    /\ b_hp_i = 0
    /\ b_fq_i = 0
    /\ b_start = NoDatetime
    /\ b_len = 0
    /\ b_pc = "off"

PoolIdle ==
    /\ p_workers = 0
    /\ p_running = {}
    /\ p_finished = {}

DcaIdle ==
    /\ d_schedule = <<>>
    /\ d_out = None
    /\ results_batch = <<>>
    /\ d_pc = "off"

MetIdle ==
    /\ m_call = "off"
    /\ prices = <<>>
    /\ m_dates = <<>>
    /\ m_years = 0
    /\ m_out = NoResult
    /\ m_pc = "off"

InitGen ==
    /\ GridIdle
    /\ BufIdle
    /\ PoolIdle
    /\ mode \in {"bh", "dca"}
    /\ START_DATE \in EpochChoices
    /\ today \in TodayChoices(START_DATE)
    /\ hp_i = 1
    /\ fq_i = 1
    /\ current_start = NoDatetime
    /\ all_tasks = <<>>
    /\ gen_pc = "for"
    /\ ValIdle
    /\ PdIdle
    /\ MetIdle
    /\ DcaIdle
    /\ RunIdle

NextGen == GenFor \/ GenDone \/ GenBreak \/ GenAppend

SpecGen == InitGen /\ [][NextGen]_vars /\ WF_vars(NextGen)

(***************************************************************************)
(* Specification of the validator: one call of each entry point on the     *)
(* same window and the same price table.                                   *)
(***************************************************************************)
\* days by which the table's first and last row may miss the window boundary
MaxBoundarySlack == 1

\* rows by which the fetched row count may differ from the required minimum
MaxCountSlack == 1

StartChoices == {START_DATE_DEFAULT, <<2012, 3, 1>>, <<2013, 12, 1>>}

\* the end dates of a call: the generated one (start advanced N years) and
\* two that are 10 and 11 days short of N * 365 days
EndChoices(start_date, N) ==
    { Strftime(EndDateFor(Strptime(start_date), N)) }
    \cup { Strftime(AddDays(DateOf(Strptime(start_date)), N * 365 - k)) : k \in {10, 11} }

\* a table whose rows run from `first` to `last` with `missing` days absent
\* right after the first row that falls into the window
TableWith(first, last, inWindowFirst, missing) ==
    IF missing = 0
    THEN << [lo |-> first, hi |-> last] >>
    ELSE << [lo |-> first, hi |-> inWindowFirst], [lo |-> inWindowFirst + 1 + missing, hi |-> last] >>

TableChoices(start_date, end_date, N) ==
    LET s == ToOrdinal(DateOf(Strptime(start_date)))
        e == ToOrdinal(DateOf(Strptime(end_date)))
    IN  { <<>> } \cup
        UNION { LET first == s + df
                    last  == e + dl
                    cf    == Max(first, s)
                    full  == Min(last, e) - cf + 1
                IN  { TableWith(first, last, cf, m) :
                        m \in {0} \cup { full - (IntTimes07(N * 365) + c) :
                                            c \in (0 - MaxCountSlack) .. MaxCountSlack } }
              : df \in (0 - MaxBoundarySlack) .. MaxBoundarySlack,
                dl \in (0 - MaxBoundarySlack) .. MaxBoundarySlack }

InitVal ==
    /\ GridIdle
    /\ BufIdle
    /\ PoolIdle
    /\ GenIdle
    /\ PdIdle
    /\ MetIdle
    /\ \E i \in 1 .. Len(HOLDING_PERIODS) :
         \E sd \in StartChoices :
           \E ed \in EndChoices(sd, HOLDING_PERIODS[i]) :
             /\ v_task = [start_date |-> sd, end_date |-> ed,
                          holding_years |-> HOLDING_PERIODS[i]]
             /\ price_table \in TableChoices(sd, ed, HOLDING_PERIODS[i])
    /\ bh_out = "pending"
    /\ dca_out = "pending"
    /\ mo_out = "pending"
    /\ DcaIdle
    /\ RunIdle

NextVal == CalcBuyAndHold \/ CalcDCA \/ CalcMonthly

SpecVal == InitVal /\ [][NextVal]_vars

(***************************************************************************)
(* Specification of get_dca_purchase_dates: one call per behaviour.        *)
(***************************************************************************)
\* start dates run over MaxStartDays + 1 consecutive days from 2011-12-20
MaxStartDays == 13

\* end is up to MaxSpanDays days after start
MaxSpanDays == 45

FrequencyTags == {"daily", "weekly", "monthly", "yearly"}

ShortRanges ==
    { [start_date |-> Strftime(AddDays([year |-> 2011, month |-> 12, day |-> 20], a)),
       end_date   |-> Strftime(AddDays([year |-> 2011, month |-> 12, day |-> 20], a + b)),
       frequency  |-> f] :
        a \in 0 .. MaxStartDays, b \in 0 .. MaxSpanDays, f \in FrequencyTags }

\* generated evaluation windows: every holding period weekly and monthly, the
\* shortest one daily as well
WindowRanges ==
    { [start_date |-> sd,
       end_date   |-> Strftime(EndDateFor(Strptime(sd), HOLDING_PERIODS[i])),
       frequency  |-> f] :
        sd \in StartChoices, i \in 1 .. Len(HOLDING_PERIODS), f \in {"weekly", "monthly"} }
    \cup
    { [start_date |-> sd,
       end_date   |-> Strftime(EndDateFor(Strptime(sd), HOLDING_PERIODS[1])),
       frequency  |-> "daily"] : sd \in StartChoices }

InitPd ==
    /\ GridIdle
    /\ BufIdle
    /\ PoolIdle
    /\ GenIdle
    /\ ValIdle
    /\ MetIdle
    /\ pd_args \in ShortRanges \cup WindowRanges
    /\ current = NoDatetime
    /\ purchase_dates = <<>>
    /\ pd_pc = "call"
    /\ DcaIdle
    /\ RunIdle

NextPd == PdCall \/ PdDaily \/ PdSeekMonday \/ PdWeekly \/ PdMonthly \/ PdReturn

SpecPd == InitPd /\ [][NextPd]_vars

(***************************************************************************)
(* Specification of the metric calculators: one call per behaviour.  The   *)
(* calculators read the series through prices and dates only, whatever its *)
(* length; the record functions are called on non-empty (validated) series.*)
(***************************************************************************)
\* longest price series
MaxLen == 4

PriceChoices == {45, 50, 90, 100, 110, 120}

RECURSIVE SeqsUpTo(_, _)
SeqsUpTo(S, n) ==
    IF n = 0 THEN { <<>> }
    ELSE LET shorter == SeqsUpTo(S, n - 1)
         IN  shorter \cup { Append(q, x) : q \in { r \in shorter : Len(r) = n - 1 }, x \in S }

\* the dates of n samples from 2010-01-01 on, gap-free or with two days
\* missing after the first sample
DatesChoices(n) ==
    { [i \in 1 .. n |->
          AddDays(DateOf(Strptime(START_DATE_DEFAULT)), (i - 1) + (IF i > 1 THEN g ELSE 0))] :
        g \in {0, 2} }

InitMet ==
    /\ GridIdle
    /\ BufIdle
    /\ PoolIdle
    /\ GenIdle
    /\ ValIdle
    /\ PdIdle
    /\ prices \in SeqsUpTo(PriceChoices, MaxLen)
    /\ m_dates \in DatesChoices(Len(prices))
    /\ m_years \in {HOLDING_PERIODS[1], HOLDING_PERIODS[Len(HOLDING_PERIODS)]}
    /\ m_call \in IF prices = <<>> THEN {"max_drawdown"}
                  ELSE {"max_drawdown", "full", "monthly"}
    /\ m_out = NoResult
    /\ m_pc = "call"
    /\ DcaIdle
    /\ RunIdle

NextMet == CallMaxDrawdown \/ CallMetricsFull \/ CallMetricsMonthly

SpecMet == InitMet /\ [][NextMet]_vars

(***************************************************************************)
(* Specification of the calculators on one window: the buy-and-hold record *)
(* of both scripts and the DCA record with its way into main's batch.  The *)
(* samples run from 2010-01-01 day by day; the last one is the next day or *)
(* the end of the three-year window, 2013-01-01.                           *)
(***************************************************************************)
\* longest price series of the simulation
MaxDcaLen == 3

DcaPriceChoices == {5, 10, 20}

WindowStart == DateOf(Strptime(START_DATE_DEFAULT))

WindowEnd == DateOf(EndDateFor(Strptime(START_DATE_DEFAULT), HOLDING_PERIODS[1]))

DcaDatesChoices(n) ==
    { [i \in 1 .. n |-> IF i = n /\ far /\ n > 1 THEN WindowEnd ELSE AddDays(WindowStart, i - 1)] :
        far \in BOOLEAN }

\* a date of the window that has no sample: the day before its end
AbsentDate == AddDays(WindowEnd, 0 - 1)

RECURSIVE SortedByOrdinal(_)
\* the dates of a set in increasing order
SortedByOrdinal(S) ==
    IF S = {} THEN <<>>
    ELSE LET first == CHOOSE d \in S : \A e \in S : ToOrdinal(d) <= ToOrdinal(e)
         IN  <<first>> \o SortedByOrdinal(S \ {first})

\* the schedules: increasing, of dates with a sample and the date without one
ScheduleChoices(dates) ==
    { SortedByOrdinal(S) : S \in SUBSET ({dates[i] : i \in 1 .. Len(dates)} \cup {AbsentDate}) }

InitDca ==
    /\ GridIdle
    /\ BufIdle
    /\ PoolIdle
    /\ GenIdle
    /\ ValIdle
    /\ PdIdle
    /\ prices \in SeqsUpTo(DcaPriceChoices, MaxDcaLen) \ { <<>> }
    /\ m_dates \in DcaDatesChoices(Len(prices))
    /\ m_years \in {HOLDING_PERIODS[1], HOLDING_PERIODS[2]}
    /\ m_call \in {"full", "monthly", "dca"}
    /\ m_out = NoResult
    /\ m_pc = IF m_call = "dca" THEN "off" ELSE "call"
    /\ d_schedule \in IF m_call = "dca" THEN ScheduleChoices(m_dates) ELSE { <<>> }
    /\ d_out = None
    /\ results_batch = <<>>
    /\ d_pc = IF m_call = "dca" THEN "call" ELSE "off"
    /\ RunIdle

NextDca == CallMetricsFull \/ CallMetricsMonthly \/ CallDcaPerformance \/ DcaCollect

SpecDca == InitDca /\ [][NextDca]_vars

(***************************************************************************)
(* Specification of the full runs: two assets, a today shortly after the   *)
(* first three-year windows have ended, at most one series fetch that      *)
(* raises, and the script started MaxRuns times.                           *)
(***************************************************************************)
Ord(y, m, d) == ToOrdinal([year |-> y, month |-> m, day |-> d])

\* rows for every day from the epoch on, the price rising once
TableFull ==
    <<[lo |-> Ord(2010, 1, 1), hi |-> Ord(2011, 12, 31), price |-> 100],
      [lo |-> Ord(2012, 1, 1), hi |-> Ord(2013, 3, 31), price |-> 150]>>

\* rows from the second month on
TableLate ==
    <<[lo |-> Ord(2010, 2, 1), hi |-> Ord(2011, 12, 31), price |-> 80],
      [lo |-> Ord(2012, 1, 1), hi |-> Ord(2013, 3, 31), price |-> 60]>>

\* a hundred rows
TableShort == <<[lo |-> Ord(2010, 1, 1), hi |-> Ord(2010, 4, 10), price |-> 100]>>

\* rows only after the windows have ended
TableAfter == <<[lo |-> Ord(2013, 2, 2), hi |-> Ord(2015, 12, 31), price |-> 120]>>

StoreChoices ==
    [{ASSETS[i] : i \in 1 .. Len(ASSETS)} -> {TableFull, TableLate, TableShort, TableAfter}]

RunTodayChoices ==
    {[year |-> 2013, month |-> 1, day |-> 15, tod |-> 1],
     [year |-> 2013, month |-> 2, day |-> 15, tod |-> 1]}

InitRun ==
    /\ GridIdle
    /\ BufIdle
    /\ PoolIdle
    /\ GenIdle
    /\ ValIdle
    /\ PdIdle
    /\ MetIdle
    /\ DcaIdle
    /\ r_mode \in {"bh", "dca"}
    /\ r_today \in RunTodayChoices
    /\ r_tasks = (IF r_mode = "bh" THEN BhTasks(r_today) ELSE DcaTasks(r_today))
    /\ store \in StoreChoices
    /\ fail_on \in {{}} \cup {{r_tasks[i]} : i \in 1 .. Len(r_tasks)}
    /\ db_faults = 0
    /\ r_run = 1
    /\ r_pc = "loop"
    /\ r_asset_i = 1
    /\ r_win_i = 1
    /\ results = <<>>
    /\ sink = {}
    /\ sink_first = {}
    /\ evaluated = {}
    /\ completed = 0

NextRun ==
    \/ RunBhWindow
    \/ RunBhInsert
    \/ RunBhSummary
    \/ RunDcaTask
    \/ RunDcaSummary
    \/ RunAgain

SpecRun == InitRun /\ [][NextRun]_vars

(***************************************************************************)
(* Specification of repeated runs over a price store that is rewritten     *)
(* between the runs and a database that may refuse a batch.                *)
(***************************************************************************)
\* how many batch inserts the database refuses at most
MaxDbFaults == 1

InitUps ==
    /\ GridIdle
    /\ BufIdle
    /\ PoolIdle
    /\ GenIdle
    /\ ValIdle
    /\ PdIdle
    /\ MetIdle
    /\ DcaIdle
    /\ r_mode \in {"bh", "dca"}
    /\ r_today \in RunTodayChoices
    /\ r_tasks = (IF r_mode = "bh" THEN BhTasks(r_today) ELSE DcaTasks(r_today))
    /\ store \in StoreChoices
    /\ fail_on = {}
    /\ db_faults \in 0 .. MaxDbFaults
    /\ r_run = 1
    /\ r_pc = "loop"
    /\ r_asset_i = 1
    /\ r_win_i = 1
    /\ results = <<>>
    /\ sink = {}
    /\ sink_first = {}
    /\ evaluated = {}
    /\ completed = 0

NextUps ==
    \/ RunBhWindow
    \/ RunBhInsert
    \/ RunBhSummary
    \/ RunDcaTask
    \/ RunDcaSummary
    \/ RunAgain
    \/ RunAgainRevised

SpecUps == InitUps /\ [][NextUps]_vars

(***************************************************************************)
(* Specification of the task grids: the four scripts over price tables     *)
(* that hold any of two symbols.                                           *)
(***************************************************************************)
SYMBOLS == {"BTC", "GOLD"}

\* the first ten days of a month, the day after, a month's end, and a later year
MonthlyTodayChoices ==
    {[year |-> 2013, month |-> 2, day |-> 1, tod |-> 1],
     [year |-> 2013, month |-> 2, day |-> 5, tod |-> 1],
     [year |-> 2013, month |-> 2, day |-> 10, tod |-> 1],
     [year |-> 2013, month |-> 2, day |-> 11, tod |-> 1],
     [year |-> 2013, month |-> 2, day |-> 28, tod |-> 1],
     [year |-> 2021, month |-> 1, day |-> 3, tod |-> 1]}

InitGrid ==
    /\ GenIdle
    /\ ValIdle
    /\ PdIdle
    /\ MetIdle
    /\ DcaIdle
    /\ RunIdle
    /\ BufIdle
    /\ PoolIdle
    /\ g_script \in {"bh", "dca", "bh_monthly", "dca_monthly"}
    /\ g_today \in (IF g_script \in {"bh", "dca"} THEN RunTodayChoices ELSE MonthlyTodayChoices)
    /\ g_tables \in [{PRICE_TABLES[i].table_name : i \in 1 .. Len(PRICE_TABLES)} -> SUBSET SYMBOLS]
    /\ g_assets = <<>>
    /\ g_start_dates = <<>>
    /\ g_tasks = <<>>
    /\ g_pc = "assets"

NextGrid == GetAllAssets \/ GenerateTasksFull \/ CollectStartDates \/ GenerateTasksMonthly

SpecGrid == InitGrid /\ [][NextGrid]_vars

(***************************************************************************)
(* Specification of the held records: one asset, listed from the epoch on, *)
(* from 2012, or not at all, and a run in November 2026 or January 2027.   *)
(***************************************************************************)
BufTodayChoices ==
    {[year |-> 2026, month |-> 11, day |-> 4, tod |-> 1],
     [year |-> 2027, month |-> 1, day |-> 15, tod |-> 1]}

BufListedChoices == {Datetime(2010, 1, 1), Datetime(2012, 1, 1), Datetime(2030, 1, 1)}

InitBuf ==
    /\ GenIdle
    /\ ValIdle
    /\ PdIdle
    /\ MetIdle
    /\ DcaIdle
    /\ RunIdle
    /\ GridIdle
    /\ PoolIdle
    /\ b_script \in {"bh", "dca"}
    /\ b_today \in BufTodayChoices
    /\ b_listed \in BufListedChoices
    /\ b_hp_i = 1
    /\ b_fq_i = 1
    /\ b_start = FirstStart(Strptime(START_DATE_DEFAULT))
    /\ b_len = 0
    /\ b_pc = "loop"

NextBuf == BufBreak \/ BufKeepBh \/ BufKeepDca \/ BufFinish

SpecBuf == InitBuf /\ [][NextBuf]_vars

(***************************************************************************)
(* Specification of one run through the worker pool: either script, the    *)
(* price store fixed, the database accepting every batch, one to           *)
(* MaxWorkers workers, the futures taken in any order in which they can    *)
(* be done.                                                                *)
(***************************************************************************)
MaxWorkers == 2

PoolTodayChoices == {[year |-> 2013, month |-> 1, day |-> 15, tod |-> 1]}

InitPool ==
    /\ GridIdle
    /\ BufIdle
    /\ GenIdle
    /\ ValIdle
    /\ PdIdle
    /\ MetIdle
    /\ DcaIdle
    /\ p_workers \in 1 .. MaxWorkers
    /\ p_running = {}
    /\ p_finished = {}
    /\ r_mode \in {"bh", "dca"}
    /\ r_today \in PoolTodayChoices
    /\ r_tasks = (IF r_mode = "bh" THEN BhTasks(r_today) ELSE DcaTasks(r_today))
    /\ store \in StoreChoices
    /\ fail_on = {}
    /\ db_faults = 0
    /\ r_run = 1
    /\ r_pc = "pool"
    /\ r_asset_i = 1
    /\ r_win_i = 1
    /\ results = <<>>
    /\ sink = {}
    /\ sink_first = {}
    /\ evaluated = {}
    /\ completed = 0

NextPool ==
    \/ PoolStart
    \/ PoolWorkerDca
    \/ PoolWorkerBh
    \/ PoolTakeDca
    \/ PoolTakeBh
    \/ PoolSummary

SpecPool == InitPool /\ [][NextPool]_vars

(***************************************************************************)
(* C4.  Window enumeration.                                                *)
(***************************************************************************)
\* first-of-month candidates between the epoch's year and today's year
MonthFirsts ==
    { Datetime(y, m, 1) : y \in Strptime(START_DATE).year .. today.year, m \in 1 .. 12 }

\* the windows of one holding period whose start is on or after `from`
\* and whose end (start advanced N years) is not after today's date
WindowsFrom(from, N) ==
    { s \in MonthFirsts :
        /\ ToOrdinal(DateOf(s)) >= ToOrdinal(DateOf(from))
        /\ ToOrdinal(DateOf(Datetime(s.year + N, s.month, 1))) <= ToOrdinal(DateOf(today)) }

TaskOf(s, N, f) ==
    [start_date |-> <<s.year, s.month, 1>>, end_date |-> <<s.year + N, s.month, 1>>,
     holding_years |-> N, frequency |-> f]

ExpectedTasks(from) ==
    UNION { { TaskOf(s, HOLDING_PERIODS[i], Frequencies[j]) :
                s \in WindowsFrom(from, HOLDING_PERIODS[i]), j \in 1 .. Len(Frequencies) } :
            i \in 1 .. Len(HOLDING_PERIODS) }

TaskSet == { all_tasks[n] : n \in 1 .. Len(all_tasks) }

MonthIndex(str) == str[1] * 12 + (str[2] - 1)

\* consecutive windows of one (holding period, frequency) group start one month apart
StepsOneMonth ==
    \A n \in 1 .. Len(all_tasks) - 1 :
        LET a == all_tasks[n]
            b == all_tasks[n + 1]
        IN  (a.holding_years = b.holding_years /\ a.frequency = b.frequency)
                => (b.start_date[3] = 1 /\ MonthIndex(b.start_date) = MonthIndex(a.start_date) + 1)

NoRepeats == Cardinality(TaskSet) = Len(all_tasks)

\* C4 as stated: the loop nest, once done, has produced exactly the windows whose
\* start is a first of month on or after the epoch and whose end, N years
\* later, is not after today, one month apart and without repeats
C4_AsStated ==
    gen_pc = "done" =>
        /\ TaskSet = ExpectedTasks(Strptime(START_DATE))
        /\ StepsOneMonth
        /\ NoRepeats

\* C4 amended: the loop nest terminates, and it has then produced exactly the
\* windows whose start is a first of month on or after the first day of the
\* epoch's month and whose end, N years later, is not after today, one month
\* apart and without repeats
C4_WindowsExact ==
    <>( /\ gen_pc = "done"
        /\ TaskSet = ExpectedTasks(FirstStart(Strptime(START_DATE)))
        /\ StepsOneMonth
        /\ NoRepeats )

\* a run through a December start, all holding periods generated, epoch mid-month
C4_Witness ==
    /\ gen_pc = "done"
    /\ START_DATE[3] # 1
    /\ \E n \in 1 .. Len(all_tasks) : all_tasks[n].start_date[2] = 12
    /\ \A i \in 1 .. Len(HOLDING_PERIODS) :
          \E n \in 1 .. Len(all_tasks) : all_tasks[n].holding_years = HOLDING_PERIODS[i]

(***************************************************************************)
(* C1 - C3.  Window validation.                                            *)
(***************************************************************************)
\* the series the three entry points fetch for the call
Fetched == GetPriceData(price_table, v_task.start_date, v_task.end_date)

StartOrd == ToOrdinal([year |-> v_task.start_date[1], month |-> v_task.start_date[2],
                       day |-> v_task.start_date[3]])

EndOrd == ToOrdinal([year |-> v_task.end_date[1], month |-> v_task.end_date[2],
                     day |-> v_task.end_date[3]])

FirstOrd == Fetched[1].lo

LastOrd == Fetched[Len(Fetched)].hi

BoundariesExact == Fetched # <<>> /\ FirstOrd = StartOrd /\ LastOrd = EndOrd

GapFree == Len(Fetched) = 1

\* the window is an evaluation window: end is start advanced by N years
IsEvaluationWindow ==
    /\ v_task.start_date[3] = 1
    /\ v_task.end_date = <<v_task.start_date[1] + v_task.holding_years, v_task.start_date[2], 1>>

Rejections == {"reject_count", "reject_start", "reject_end", "reject_span"}

\* C1: a record is returned only if the first sample's date is the requested
\* start and the last sample's date is the requested end; a series that begins
\* one day late or ends one day early is rejected; a gap-free series matching
\* both boundaries of an evaluation window is accepted.  (For the DCA entry
\* point "accepted" is passing the validation that precedes the simulation.)
C1_ExactBoundaries ==
    \A o \in {bh_out, dca_out} :
        /\ o = "accept" => BoundariesExact
        /\ (o # "pending" /\ Fetched # <<>> /\ (FirstOrd = StartOrd + 1 \/ LastOrd = EndOrd - 1))
              => o \in Rejections
        /\ (o # "pending" /\ BoundariesExact /\ GapFree /\ IsEvaluationWindow)
              => o = "accept"

\* both entry points have rejected a series with enough rows that begins one
\* day after the requested start
C1_Witness ==
    /\ bh_out = "reject_start"
    /\ dca_out = "reject_start"
    /\ FirstOrd = StartOrd + 1
    /\ LastOrd = EndOrd
    /\ IsEvaluationWindow
    /\ RowCount(Fetched) >= IntTimes07(v_task.holding_years * 365)

\* C2 as stated: for an evaluation window of N years, no series with fewer
\* samples than 0.7 * N * 365 (untruncated) yields a record
C2_AsStated ==
    \A o \in {bh_out, dca_out, mo_out} :
        (IsEvaluationWindow /\ o = "accept")
            => 10 * RowCount(Fetched) >= 7 * v_task.holding_years * 365

\* C3: a window whose samples span fewer than N * 365 - 10 days is rejected; a
\* series that passes the count and boundary checks is rejected on span
\* grounds exactly when its span is below N * 365 - 10; buy-and-hold and DCA agree
C3_SpanTolerance ==
    /\ \A o \in {bh_out, dca_out} :
          (o # "pending" /\ Fetched # <<>>) =>
             LET span  == LastOrd - FirstOrd
                 limit == v_task.holding_years * 365 - 10
             IN  /\ span < limit => o \in Rejections
                 /\ o = "reject_span" => span < limit
                 /\ ( /\ RowCount(Fetched) >= IntTimes07(v_task.holding_years * 365)
                      /\ BoundariesExact )
                       => (IF span < limit THEN o = "reject_span" ELSE o = "accept")
    /\ (bh_out # "pending" /\ dca_out # "pending") => bh_out = dca_out

\* both entry points have rejected, on span grounds, a series with exact
\* boundaries that is 11 days short of N * 365
C3_Witness ==
    /\ bh_out = "reject_span"
    /\ dca_out = "reject_span"
    /\ BoundariesExact
    /\ LastOrd - FirstOrd = v_task.holding_years * 365 - 11

(***************************************************************************)
(* C5, C6.  Purchase schedules.                                            *)
(***************************************************************************)
PdStartOrd == ToOrdinal([year |-> pd_args.start_date[1], month |-> pd_args.start_date[2],
                         day |-> pd_args.start_date[3]])

PdEndOrd == ToOrdinal([year |-> pd_args.end_date[1], month |-> pd_args.end_date[2],
                       day |-> pd_args.end_date[3]])

\* the returned list as date ordinals
PurchaseOrds == [k \in 1 .. Len(purchase_dates) |-> ToOrdinal(purchase_dates[k])]

\* ordinal 1 (0001-01-01) is a Monday
OrdIsMonday(o) == (o - 1) % 7 = 0

\* the earliest Monday on or after the start date
FirstMondayOrd == PdStartOrd + ((7 - ((PdStartOrd - 1) % 7)) % 7)

\* C5: the weekly schedule is exactly first_monday + 7k (k >= 0) up to end,
\* in order; every date is a Monday; the first purchase is at most 6 days
\* after start; the list is empty when the first Monday is after end
C5_WeeklySchedule ==
    (pd_pc = "done" /\ pd_args.frequency = "weekly") =>
        LET n == IF FirstMondayOrd > PdEndOrd THEN 0
                 ELSE ((PdEndOrd - FirstMondayOrd) \div 7) + 1
        IN  /\ PurchaseOrds = [k \in 1 .. n |-> FirstMondayOrd + 7 * (k - 1)]
            /\ \A k \in 1 .. Len(PurchaseOrds) :
                  OrdIsMonday(PurchaseOrds[k]) /\ PurchaseOrds[k] <= PdEndOrd
            /\ Len(PurchaseOrds) > 0 =>
                  (PurchaseOrds[1] >= PdStartOrd /\ PurchaseOrds[1] - PdStartOrd <= 6)
            /\ FirstMondayOrd > PdEndOrd => purchase_dates = <<>>

\* a weekly schedule of several purchases whose start is not a Monday
C5_Witness ==
    /\ pd_pc = "done"
    /\ pd_args.frequency = "weekly"
    /\ ~OrdIsMonday(PdStartOrd)
    /\ Len(purchase_dates) >= 2
    /\ PurchaseOrds[1] > PdStartOrd

\* the first days of months within [start, end]
MonthFirstOrds == { o \in PdStartOrd .. PdEndOrd : FromOrdinal(o).day = 1 }

\* the schedule request is a generated evaluation window of N years
PdWindowYears ==
    IF /\ pd_args.start_date[3] = 1
       /\ pd_args.end_date[3] = 1
       /\ pd_args.end_date[2] = pd_args.start_date[2]
    THEN pd_args.end_date[1] - pd_args.start_date[1]
    ELSE 0

\* C6: the monthly schedule is, in increasing order and without duplicates,
\* exactly the first days of months within [start, end]; for a generated
\* N-year window these are 12 * N + 1 dates including start and end
C6_MonthlySchedule ==
    (pd_pc = "done" /\ pd_args.frequency = "monthly") =>
        /\ { PurchaseOrds[k] : k \in 1 .. Len(PurchaseOrds) } = MonthFirstOrds
        /\ \A k \in 1 .. Len(PurchaseOrds) - 1 : PurchaseOrds[k] < PurchaseOrds[k + 1]
        /\ \A k \in 1 .. Len(purchase_dates) : purchase_dates[k].day = 1
        /\ PdWindowYears > 0 =>
              /\ Len(purchase_dates) = 12 * PdWindowYears + 1
              /\ PurchaseOrds[1] = PdStartOrd
              /\ PurchaseOrds[Len(PurchaseOrds)] = PdEndOrd

\* a monthly schedule over a range that starts mid-month and spans a year end
C6_Witness ==
    /\ pd_pc = "done"
    /\ pd_args.frequency = "monthly"
    /\ pd_args.start_date[3] # 1
    /\ Len(purchase_dates) >= 2
    /\ purchase_dates[1].year # pd_args.start_date[1]

(***************************************************************************)
(* The metric calculators: what a finished call returned.                  *)
(***************************************************************************)
MetDone == m_pc = "done"

RecordCall == m_call \in {"full", "monthly"}

ExamplePrices == <<100, 110, 90, 120>>

Hundred == <<100, 1>>

\* the decline from sample i to sample j, in percent of sample i
Decline(ps, i, j) == <<(ps[i] - ps[j]) * 100, ps[i]>>

\* the highest price among the first j samples
RunPeak(ps, j) == SeqMax(SubSeq(ps, 1, j))

\* how far sample j is below the running peak, as a fraction of the peak
DrawdownAt(ps, j) == <<RunPeak(ps, j) - ps[j], RunPeak(ps, j)>>

RNeg(a) == <<0 - a[1], a[2]>>

StrictlyIncreasing(ps) == \A i \in 1 .. Len(ps) - 1 : ps[i] < ps[i + 1]

\* a Calmar ratio that is the number 0: the guarded 0.0, or a quotient whose
\* numerator, the annualized return, is 0 (end price = start price)
CalmarIsZero(c) ==
    \/ c.zero
    \/ /\ ~REq(c.den, RZero)
       /\ c.num.base[1] = c.num.base[2]

(* C7. For every series of positive prices the max drawdown returned is at *)
(* least 0 and at most 100 percent, and is no more than the largest        *)
(* decline (p[i]-p[j])/p[i] over the pairs i <= j of the series (0 when    *)
(* there is no pair).                                                      *)
C7_DrawdownBounded ==
    MetDone =>
        LET pct == m_out.max_drawdown_pct
        IN  /\ RLeq(RZero, pct)
            /\ RLeq(pct, Hundred)
            /\ \/ REq(pct, RZero)
               \/ \E i \in 1 .. Len(prices) : \E j \in i .. Len(prices) :
                     RLeq(pct, Decline(prices, i, j))

\* a direct call returned a drawdown of more than half of the peak
C7_Witness ==
    /\ MetDone
    /\ m_call = "max_drawdown"
    /\ Len(prices) >= 3
    /\ RLess(<<50, 1>>, m_out.max_drawdown_pct)

(* C8. The max drawdown returned is the largest fall below the running     *)
(* peak (the peak counting the sample itself), as a positive percentage,   *)
(* with the index of the earliest sample that attains it; the index is 0   *)
(* and the value 0 when no sample is below its running peak.  For          *)
(* [100, 110, 90, 120] it is (110-90)/110 at index 2.  The record's        *)
(* max_drawdown_date is the date of the sample at that index.              *)
C8_DrawdownValueAndIndex ==
    MetDone =>
        LET pct == m_out.max_drawdown_pct
            idx == m_out.max_dd_idx
            n   == Len(prices)
        IN  /\ IF \E j \in 1 .. n : RLess(RZero, DrawdownAt(prices, j))
               THEN /\ idx + 1 \in 1 .. n
                    /\ REq(pct, RTimes100(DrawdownAt(prices, idx + 1)))
                    /\ \A j \in 1 .. n :
                          RLeq(DrawdownAt(prices, j), DrawdownAt(prices, idx + 1))
                    /\ \A j \in 1 .. idx :
                          RLess(DrawdownAt(prices, j), DrawdownAt(prices, idx + 1))
               ELSE /\ REq(pct, RZero)
                    /\ idx = 0
            /\ prices = ExamplePrices =>
                  /\ REq(pct, <<(110 - 90) * 100, 110>>)
                  /\ idx = 2
            /\ RecordCall => m_out.max_drawdown_date = m_dates[idx + 1]

\* two equal drawdowns from different peaks: the earlier one is reported
C8_Witness ==
    /\ MetDone
    /\ m_call = "full"
    /\ prices = <<50, 45, 100, 90>>
    /\ m_out.max_dd_idx = 1
    /\ m_out.max_drawdown_date = m_dates[2]

(* C9. In every record max_loss_from_entry_pct is                          *)
(* (min_price - entry_price) / entry_price * 100, the entry price being    *)
(* the first sample's and the minimum taken over the whole series, so it   *)
(* is at most 0; max_loss_from_entry_date is the date of the earliest      *)
(* sample at the minimum.  For [100, 110, 90, 120] it is -10 at the third  *)
(* sample.                                                                 *)
C9_MaxLossFromEntry ==
    (MetDone /\ RecordCall) =>
        LET pct      == m_out.max_loss_from_entry_pct
            lowest   == SeqMin(prices)
            earliest == CHOOSE i \in 1 .. Len(prices) :
                           /\ prices[i] = lowest
                           /\ \A j \in 1 .. i - 1 : prices[j] # lowest
        IN  /\ REq(pct, <<(lowest - prices[1]) * 100, prices[1]>>)
            /\ RLeq(pct, RZero)
            /\ m_out.max_loss_from_entry_date = m_dates[earliest]
            /\ prices = ExamplePrices =>
                  /\ REq(pct, <<0 - 10, 1>>)
                  /\ m_out.max_loss_from_entry_date = m_dates[3]

\* the example series: the loss from entry (10) is not the drawdown (18.18)
C9_Witness ==
    /\ MetDone
    /\ m_call = "full"
    /\ prices = ExamplePrices
    /\ RLess(RNeg(m_out.max_loss_from_entry_pct), m_out.max_drawdown_pct)

(* C10. For a strictly increasing price series the record has              *)
(* max_drawdown_pct = 0, max_loss_from_entry_pct = 0 and calmar_ratio = 0. *)
C10_IncreasingSeries ==
    (MetDone /\ RecordCall /\ StrictlyIncreasing(prices)) =>
        /\ REq(m_out.max_drawdown_pct, RZero)
        /\ REq(m_out.max_loss_from_entry_pct, RZero)
        /\ CalmarIsZero(m_out.calmar_ratio)

\* a record of a rising series of at least three samples
C10_Witness ==
    /\ MetDone
    /\ m_call = "full"
    /\ Len(prices) >= 3
    /\ StrictlyIncreasing(prices)
    /\ m_out.end_price > m_out.start_price

(***************************************************************************)
(* The risk ratios, the returns and the DCA simulation on one window.      *)
(***************************************************************************)
DcaReturned == d_pc \in {"returned", "done"}

DcaRecorded == DcaReturned /\ ~d_out.none

SeriesDates == {m_dates[i] : i \in 1 .. Len(m_dates)}

ScheduledDates == {d_schedule[k] : k \in 1 .. Len(d_schedule)}

\* the number of negative daily returns of a price series
NegativeCount(ps) == Cardinality({i \in 1 .. Len(ps) - 1 : ps[i + 1] < ps[i]})

(* C11. In the buy-and-hold record and in the DCA record, Sharpe is 0 when *)
(* the volatility is 0, Sortino is 0 when the downside deviation is 0 and  *)
(* Calmar is 0 when the max drawdown is 0, whatever the annualized return; *)
(* no ratio is a quotient by 0.                                            *)
C11_ZeroDenominators ==
    /\ (MetDone /\ RecordCall) =>
          /\ m_out.volatility_pct.kind = "zero" => m_out.sharpe_ratio.zero
          /\ m_out.downside_dev.kind = "zero" => m_out.sortino_ratio.zero
          /\ REq(m_out.max_drawdown_pct, RZero) => m_out.calmar_ratio.zero
          /\ ~m_out.sharpe_ratio.zero => m_out.sharpe_ratio.den.kind # "zero"
          /\ ~m_out.sortino_ratio.zero => m_out.sortino_ratio.den.kind # "zero"
          /\ ~m_out.calmar_ratio.zero => ~REq(m_out.calmar_ratio.den, RZero)
    /\ DcaRecorded =>
          LET r == d_out.rec
          IN  /\ r.volatility_pct.kind = "zero" => r.sharpe_ratio.zero
              /\ r.downside_dev.kind = "zero" => r.sortino_ratio.zero
              /\ REq(r.max_drawdown_pct, RZero) => r.calmar_ratio.zero
              /\ \A q \in {r.sharpe_ratio, r.sortino_ratio, r.calmar_ratio} :
                    ~q.zero => q.den.kind # "zero"

\* a doubling series: two equal returns, volatility 0, a positive return, Sharpe 0
C11_Witness ==
    /\ MetDone
    /\ m_call = "full"
    /\ prices = <<5, 10, 20>>
    /\ m_out.volatility_pct.kind = "zero"
    /\ Len(m_out.volatility_pct.sample) = 2
    /\ m_out.sharpe_ratio.zero

(* C12 as stated: with fewer than two negative returns the downside        *)
(* deviation is 0 and Sortino is 0, in both buy-and-hold scripts and in    *)
(* the DCA simulation.                                                     *)
C12_AsStated ==
    /\ (MetDone /\ RecordCall /\ NegativeCount(prices) < 2) =>
          /\ m_out.downside_dev.kind = "zero"
          /\ m_out.sortino_ratio.zero
    /\ (DcaRecorded /\ Len(NegativeReturns(d_out.rec.volatility_pct.sample)) < 2) =>
          /\ d_out.rec.downside_dev.kind = "zero"
          /\ d_out.rec.sortino_ratio.zero

(* C13. In every buy-and-hold record the annualized return is the N-th     *)
(* root of end_price/start_price, N being the declared holding period,     *)
(* and 1 + total_return_pct/100 is that same end_price/start_price.        *)
C13_CompoundingConsistent ==
    (MetDone /\ RecordCall) =>
        LET a == m_out.annualized_return_pct
            t == m_out.total_return_pct
        IN  /\ a.root = m_years
            /\ REq(a.base, <<m_out.end_price, m_out.start_price>>)
            /\ REq(RAdd(RInt(1), <<t[1], t[2] * 100>>), a.base)
            /\ m_out.start_price = prices[1]
            /\ m_out.end_price = prices[Len(prices)]

\* a ten-year record over samples a few days apart, with a gain
C13_Witness ==
    /\ MetDone
    /\ m_call = "full"
    /\ m_years = HOLDING_PERIODS[Len(HOLDING_PERIODS)]
    /\ Len(prices) >= 2
    /\ DaysBetween(m_dates[Len(m_dates)], m_dates[1]) < 365
    /\ m_out.end_price > m_out.start_price

(* C14 as stated: the DCA annualized return is the root of                 *)
(* final_value/total_invested taken with the declared holding period, on   *)
(* the three-year window 2010-01-01..2013-01-01 as well.                   *)
C14_AsStated ==
    (DcaRecorded /\ m_dates[Len(m_dates)] = WindowEnd /\ m_years = HOLDING_PERIODS[1]) =>
        LET a == d_out.rec.annualized_return_pct
        IN  /\ ~a.zero
            /\ REq(a.base, RDiv(d_out.rec.final_value, d_out.rec.total_invested))
            /\ REq(a.root, RInt(d_out.rec.holding_period_years))

RECURSIVE UnitsOver(_)
\* the units bought with one contribution on each date of a set of sample dates
UnitsOver(S) ==
    IF S = {} THEN RZero
    ELSE LET d == CHOOSE x \in S : TRUE
             i == CHOOSE k \in 1 .. Len(m_dates) : m_dates[k] = d
         IN  RAdd(<<INVESTMENT_PER_PERIOD, prices[i]>>, UnitsOver(S \ {d}))

(* C15. The simulation buys once on every scheduled date that has a sample *)
(* and never for a scheduled date without one: number_of_purchases is the  *)
(* number of scheduled dates in the series, total_invested is 100 times    *)
(* that, total_units is the sum of 100/price over them and the average     *)
(* purchase price is total_invested/total_units.  Prices [10, 20, 5] all   *)
(* bought: invested 300, units 35, average 300/35.                         *)
C15_PurchasesExecuted ==
    DcaReturned =>
        LET bought == ScheduledDates \cap SeriesDates
            r      == d_out.rec
        IN  /\ d_out.none <=> bought = {}
            /\ ~d_out.none =>
                  /\ r.number_of_purchases = Cardinality(bought)
                  /\ REq(r.total_invested, RInt(INVESTMENT_PER_PERIOD * Cardinality(bought)))
                  /\ REq(r.total_units_acquired, UnitsOver(bought))
                  /\ REq(r.average_purchase_price,
                         RDiv(r.total_invested, r.total_units_acquired))
            /\ (prices = <<10, 20, 5>> /\ bought = SeriesDates) =>
                  /\ REq(r.total_invested, RInt(300))
                  /\ REq(r.total_units_acquired, RInt(35))
                  /\ REq(r.average_purchase_price, <<300, 35>>)

\* the example, with a further scheduled date that has no sample
C15_Witness ==
    /\ d_pc = "done"
    /\ prices = <<10, 20, 5>>
    /\ ScheduledDates = SeriesDates \cup {AbsentDate}
    /\ d_out.rec.number_of_purchases = 3
    /\ Len(results_batch) = 1

(* C16. With the single scheduled date equal to the first sample's date    *)
(* the simulation is the lump-sum position: total_return_pct equals        *)
(* lumpsum_return_pct and (p_end - p_start)/p_start * 100, the             *)
(* buy-and-hold total return; dca_vs_lumpsum_diff is 0; max_drawdown_pct   *)
(* and max_drawdown_date are those of calculate_max_drawdown on the        *)
(* prices.                                                                 *)
C16_SinglePurchaseIsLumpSum ==
    (DcaReturned /\ d_schedule = <<m_dates[1]>>) =>
        LET r  == d_out.rec
            bh == MetricsFull(prices, m_dates, m_years)
        IN  /\ ~d_out.none
            /\ REq(r.total_return_pct, r.lumpsum_return_pct)
            /\ REq(r.total_return_pct,
                   <<(prices[Len(prices)] - prices[1]) * 100, prices[1]>>)
            /\ REq(r.total_return_pct, bh.total_return_pct)
            /\ REq(r.dca_vs_lumpsum_diff, RZero)
            /\ REq(r.max_drawdown_pct, bh.max_drawdown_pct)
            /\ r.max_drawdown_date = bh.max_drawdown_date

\* one purchase on the first day of a series that falls and ends elsewhere
C16_Witness ==
    /\ d_pc = "done"
    /\ d_schedule = <<m_dates[1]>>
    /\ Len(prices) = 3
    /\ prices[3] # prices[1]
    /\ RLess(RZero, d_out.rec.max_drawdown_pct)
    /\ d_out.rec.max_drawdown_date = m_dates[3]

(* C17. When the schedule is empty or no scheduled date has a sample,      *)
(* calculate_dca_performance returns None and nothing is appended to the   *)
(* batch.                                                                  *)
C17_EmptyScheduleNoResult ==
    (DcaReturned /\ ScheduledDates \cap SeriesDates = {}) =>
        /\ d_out = None
        /\ results_batch = <<>>

\* a schedule of one date that has no sample, after the task was collected
C17_Witness ==
    /\ d_pc = "done"
    /\ d_schedule = <<AbsentDate>>
    /\ d_out.none
    /\ results_batch = <<>>

(***************************************************************************)
(* The full runs: what reaches the performance table.                      *)
(***************************************************************************)
RunGrid == {r_tasks[i] : i \in 1 .. Len(r_tasks)}

TaskKey(t) == <<t.symbol, t.start_date, t.end_date, t.frequency>>

\* the validator's verdict on the stored series of a call
Verdict(t) ==
    LET rows == GetPriceData(store[t.symbol], t.start_date, t.end_date)
    IN  IF r_mode = "bh"
        THEN ValidateBH(rows, t.start_date, t.end_date, t.holding_years)
        ELSE ValidateDCA(rows, t.start_date, t.end_date, t.holding_years)

\* what the call returns when its fetch does not fail
Returned(t) == IF r_mode = "bh" THEN EvaluateBH(t) ELSE EvaluateDCA(t)

\* the records a run is holding or has written
HeldRows ==
    sink \cup {results[k] : k \in 1 .. Len(results)}
         \cup {results_batch[k] : k \in 1 .. Len(results_batch)}

SinkKeys == {RowKey(r) : r \in sink}

\* the rows without their timestamp
WithoutTimestamp(rows) == {[r EXCEPT !.updated_at = 0] : r \in rows}

(* C18. A window the validator rejects is skipped silently: whatever the   *)
(* stored series (none at all, too few rows, a wrong first or last date)   *)
(* the call returns None and raises nothing, and every record held in      *)
(* results, in the batch or in the table belongs to a window of the run    *)
(* that the validator accepts.                                             *)
C18_RejectedSkipped ==
    r_mode # "off" =>
        /\ \A t \in RunGrid :
              /\ Verdict(t) # "IndexError"
              /\ ~Returned(t).raised
              /\ Verdict(t) # "accept" => Returned(t).none
        /\ \A row \in HeldRows :
              \E t \in RunGrid : Verdict(t) = "accept" /\ TaskKey(t) = RowKey(row)

\* a finished buy-and-hold run over an asset without rows in the windows and
\* an asset with all rows: only the second has records
C18_Witness ==
    /\ r_mode = "bh"
    /\ r_pc = "summary"
    /\ fail_on = {}
    /\ store[ASSETS[1]] = TableAfter
    /\ store[ASSETS[2]] = TableFull
    /\ \E t \in evaluated : t.symbol = ASSETS[1]
    /\ sink # {}
    /\ \A row \in sink : row.symbol = ASSETS[2]

(* C19 as stated: at the summary of a run every call whose fetch did not   *)
(* fail has been evaluated, and the record of each such call that returned *)
(* one is in the table.                                                    *)
C19_AsStated ==
    (r_pc = "summary" /\ r_run = 1) =>
        \A t \in RunGrid \ fail_on :
            /\ t \in evaluated
            /\ ~Returned(t).none => TaskKey(t) \in SinkKeys

(* C20. Started a second time on the same store with the same today, the   *)
(* script leaves the table with the same keys and, the timestamp aside,    *)
(* the same rows as after the first run.                                   *)
C20_Idempotent ==
    (r_pc = "summary" /\ r_run >= 2) =>
        /\ WithoutTimestamp(sink) = WithoutTimestamp(sink_first)
        /\ Cardinality(sink) = Cardinality(sink_first)
        /\ SinkKeys = {RowKey(r) : r \in sink_first}

\* the second DCA run has rewritten rows the first run inserted
C20_Witness ==
    /\ r_mode = "dca"
    /\ r_pc = "summary"
    /\ r_run = 2
    /\ sink_first # {}
    /\ \A row \in sink_first : row.updated_at = 1
    /\ \A row \in sink : row.updated_at = 2

(***************************************************************************)
(* The performance table under repeated upserts and refused batches.       *)
(***************************************************************************)
OneRowPerKey == \A r1, r2 \in sink : RowKey(r1) = RowKey(r2) => r1 = r2

\* the row keeps symbol, start_date, end_date, dca_frequency and holding period
IdentityKept(old, new) ==
    /\ new.symbol = old.symbol
    /\ new.start_date = old.start_date
    /\ new.end_date = old.end_date
    /\ new.dca_frequency = old.dca_frequency
    /\ new.holding_period_years = old.holding_period_years

\* a step leaves every stored row in place under its key, identity untouched
RowsStay ==
    \A old \in sink :
        /\ \E new \in sink' : RowKey(new) = RowKey(old)
        /\ \A new \in sink' : RowKey(new) = RowKey(old) => IdentityKept(old, new)

(* C21. After any sequence of upserts the table holds at most one row per  *)
(* natural key, and an upsert that meets an existing row leaves that row   *)
(* under its key with its identity fields unchanged.                       *)
C21_UpsertKeepsIdentity == []OneRowPerKey /\ [][RowsStay]_vars

\* a later run over rewritten prices has met a row of the first run and
\* changed its return
C21_Witness ==
    /\ r_run = 2
    /\ r_pc = "summary"
    /\ \E row \in sink : \E first \in sink_first :
          /\ RowKey(row) = RowKey(first)
          /\ row.updated_at = 2
          /\ row.total_return_pct # first.total_return_pct

(* C24 as stated: at the summary of a run every row this run has written   *)
(* equals, the timestamp aside, the record the run computed for its window.*)
C24_AsStated ==
    r_pc = "summary" =>
        \A t \in evaluated : \A row \in sink :
            (/\ ~Returned(t).none
             /\ RowKey(row) = TaskKey(t)
             /\ row.updated_at = r_run)
            => [row EXCEPT !.updated_at = 0] = Returned(t).rec

(* C26 as stated: at the summary of a run the record of every call that    *)
(* returned one is in the table.                                           *)
C26_AsStated ==
    (r_pc = "summary" /\ fail_on = {}) =>
        \A t \in evaluated : ~Returned(t).none => TaskKey(t) \in SinkKeys

(***************************************************************************)
(* The active sub-series of the DCA simulation.                            *)
(***************************************************************************)
\* the dates on which a purchase was executed
ExecutedDates == ScheduledDates \cap SeriesDates

\* the first of them
FirstExecuted ==
    CHOOSE d \in ExecutedDates : \A e \in ExecutedDates : ToOrdinal(d) <= ToOrdinal(e)

(* C23 as stated: the dates simulate_dca reports for the maximum drawdown  *)
(* and for the maximum loss from cost are dates of the series on or after  *)
(* the first executed purchase.                                            *)
C23_AsStated ==
    DcaRecorded =>
        /\ d_out.rec.max_drawdown_date \in SeriesDates
        /\ d_out.rec.max_loss_from_cost_date \in SeriesDates
        /\ ToOrdinal(FirstExecuted) <= ToOrdinal(d_out.rec.max_drawdown_date)
        /\ ToOrdinal(FirstExecuted) <= ToOrdinal(d_out.rec.max_loss_from_cost_date)

(***************************************************************************)
(* The calculator of the full run and the calculator of the monthly run.   *)
(***************************************************************************)
\* the fields of two records other than data_completeness_pct agree
SameMetrics(a, b) ==
    /\ a.start_price = b.start_price
    /\ a.end_price = b.end_price
    /\ a.min_price = b.min_price
    /\ a.max_price = b.max_price
    /\ REq(a.total_return_pct, b.total_return_pct)
    /\ a.annualized_return_pct = b.annualized_return_pct
    /\ a.volatility_pct = b.volatility_pct
    /\ REq(a.max_drawdown_pct, b.max_drawdown_pct)
    /\ a.max_drawdown_date = b.max_drawdown_date
    /\ REq(a.max_loss_from_entry_pct, b.max_loss_from_entry_pct)
    /\ a.max_loss_from_entry_date = b.max_loss_from_entry_date
    /\ a.sharpe_ratio = b.sharpe_ratio
    /\ a.sortino_ratio = b.sortino_ratio
    /\ a.calmar_ratio.zero = b.calmar_ratio.zero
    /\ a.positive_days = b.positive_days
    /\ a.negative_days = b.negative_days
    /\ REq(a.win_rate_pct, b.win_rate_pct)
    /\ a.total_trading_days = b.total_trading_days

\* what the other of the two calculators returns on the same rows
OtherCalculator ==
    IF m_call = "full" THEN MetricsMonthly(prices, m_dates, m_years)
    ELSE MetricsFull(prices, m_dates, m_years)

(* C28 as stated: on the same validated rows the calculator of the monthly *)
(* run and the calculator of the full run return the same value in every   *)
(* field of the record.                                                    *)
C28_AsStated ==
    (MetDone /\ RecordCall) =>
        /\ SameMetrics(m_out, OtherCalculator)
        /\ REq(m_out.data_completeness_pct, OtherCalculator.data_completeness_pct)

(***************************************************************************)
(* Data completeness of an accepted window.                                *)
(***************************************************************************)
AtMostHundred(pct) == RLess(RZero, pct) /\ RLeq(pct, Hundred)

(* C30 as stated: for a window the calculator accepts, the sample count    *)
(* over the day count it is compared with lies in (0, 100] per cent, in    *)
(* the full run and in the monthly run.                                    *)
C30_AsStated ==
    /\ bh_out = "accept" =>
          AtMostHundred(DataCompletenessFull(RowCount(Fetched),
                                             DateOf(Strptime(v_task.start_date)),
                                             DateOf(Strptime(v_task.end_date))))
    /\ mo_out = "accept" =>
          AtMostHundred(DataCompletenessMonthly(RowCount(Fetched),
                                                FromOrdinal(FirstOrd), FromOrdinal(LastOrd)))

(***************************************************************************)
(* The task grid of a run.                                                 *)
(***************************************************************************)
GridDone == g_pc = "done"

\* the natural key a unit of work writes
GridKey(t) == <<t.symbol, t.start_date, t.end_date, t.frequency>>

GridTaskSet == {g_tasks[i] : i \in 1 .. Len(g_tasks)}

(* C22 as stated: in the grid of a full run no two units of work have the  *)
(* same natural key.                                                       *)
C22_AsStated ==
    (GridDone /\ g_script \in {"bh", "dca"}) =>
        \A i, j \in 1 .. Len(g_tasks) :
            i # j => GridKey(g_tasks[i]) # GridKey(g_tasks[j])

\* the windows that ended on the first of today's month, for every asset,
\* holding period and frequency
NewlyCompleted ==
    {GridTask(g_assets[a],
              <<g_today.year - HOLDING_PERIODS[i], g_today.month, 1>>,
              <<g_today.year, g_today.month, 1>>,
              HOLDING_PERIODS[i],
              GridFrequencies(g_script)[j]) :
        a \in 1 .. Len(g_assets),
        i \in {k \in 1 .. Len(HOLDING_PERIODS) :
                  g_today.year - HOLDING_PERIODS[k] >= START_DATE_DEFAULT[1]},
        j \in 1 .. Len(GridFrequencies(g_script))}

(* C29 as stated: a monthly updater that runs on day 1 to 10 of a month    *)
(* with an asset that qualifies generates a non-empty task set that        *)
(* contains the windows that ended on the first of the month, and on any   *)
(* other day it generates no task.                                         *)
C29_AsStated ==
    (GridDone /\ g_script \in {"bh_monthly", "dca_monthly"} /\ g_assets # <<>>) =>
        IF g_today.day \in 1 .. 10
        THEN g_tasks # <<>> /\ NewlyCompleted \subseteq GridTaskSet
        ELSE g_tasks = <<>>

(***************************************************************************)
(* The records held in memory.                                             *)
(***************************************************************************)
(* C25 as stated: at every point of a run the number of records computed   *)
(* and not yet written is at most the flush threshold of 1000.             *)
C25_AsStated == b_len <= DCA_FLUSH_AT

(***************************************************************************)
(* The worker pool.                                                        *)
(***************************************************************************)
RECURSIVE DcaInOrder(_, _)
\* the batch main holds when the tasks are taken in the order of all_tasks
DcaInOrder(i, batch) ==
    IF i > Len(r_tasks) THEN batch
    ELSE LET result == EvaluateDCA(r_tasks[i])
         IN  DcaInOrder(i + 1, IF result.raised THEN batch ELSE Collect(batch, result))

RECURSIVE BhInOrder(_, _)
\* the table after the assets were processed one after the other
BhInOrder(a, table) ==
    IF a > Len(ASSETS) THEN table
    ELSE BhInOrder(a + 1, InsertBatch(table, BhAssetResults(a, 1, <<>>).results, r_run))

\* the table one worker that takes the units in the order of submission leaves
SinkInOrder ==
    IF r_mode = "dca" THEN InsertBatch({}, DcaInOrder(1, <<>>), r_run)
    ELSE BhInOrder(1, {})

\* a worker's future becomes done
WorkerStep == p_finished \subseteq p_finished' /\ p_finished' # p_finished

PoolDone == r_pc = "summary" /\ p_workers > 0

=============================================================================
